---- MODULE Spec2Model ----
(***************************************************************************)
(* A model of ExFS2 (src/exfs2.c, exfs2.h): a file system kept in 1 MiB    *)
(* segment files, with inode and data bitmaps, directories and a           *)
(* direct / single-indirect / double-indirect block map.                   *)
(*                                                                         *)
(* The persistent state is the content of the segment files.  Every        *)
(* command of main() (-a, -r, -e) is one action: the program is            *)
(* single-threaded and a command runs to completion.                       *)
(*                                                                         *)
(* Geometry.  The layout constants of exfs2.h are kept by name but scaled  *)
(* down so that every range of the block map (direct, single indirect,     *)
(* double indirect, and one block past the end of the double-indirect      *)
(* array) is reached by files of a handful of blocks:                      *)
(*      BLOCK_SIZE 4096 -> 2, MAX_DIRECT_BLOCKS 1017 -> 2,                 *)
(*      BLOCK_SIZE / sizeof(int) 1024 -> 2, DIR_ENTRIES_PER_BLOCK 15 -> 2, *)
(*      inodes per segment 254 -> 3, blocks per segment 255 -> 4.          *)
(* MAX_FILENAME, MAX_PATH and the 32-component limit keep their values.    *)
(***************************************************************************)
EXTENDS Integers, Sequences, FiniteSets, TLC

VARIABLES
    inode_bitmap,   \* inode_seg_<N>, first block: sequence (one per segment) of the set of set bits
    inode_table,    \* inode_seg_<N>, records: global inode number -> inode_t
    data_bitmap,    \* data_seg_<N>, first block: sequence (one per segment) of the set of set bits
    data_blocks,    \* data_seg_<N>, blocks: global block id -> block image
    last,           \* the command that ran last: its arguments, what it printed,
                    \* and the bitmaps it found
    steps           \* commands run so far

vars == <<inode_bitmap, inode_table, data_bitmap, data_blocks, last, steps>>

----------------------------------------------------------------------------
(* Constants of exfs2.h, scaled as said above *)

BLOCK_SIZE == 2
MAX_DIRECT_BLOCKS == 2
indirect_blocks_per_block == 2
DIR_ENTRIES_PER_BLOCK == 2
num_inodes == 3
num_blocks == 4
MAX_FILENAME == 256
MAX_PATH == 1024
MAX_PARTS == 32
INODE_FREE == 0
INODE_FILE == 1
INODE_DIR == 2
ROOT_DIR_INODE == 0

\* DIR_ENTRIES_PER_BLOCK of exfs2.h at the sizes of the program: BLOCK_SIZE is
\* 4096 and dir_entry_t is char name[MAX_FILENAME] followed by an int
BLOCK_SIZE_unscaled == 4096
sizeof_int == 4
sizeof_dir_entry_t == MAX_FILENAME + sizeof_int
entries_per_block(block_size, entry_size) == block_size \div entry_size

(* Bounds of the model *)

MaxCommands == 3            \* commands run on the file system, from its creation

----------------------------------------------------------------------------
(* Helpers *)

Min(S) == CHOOSE x \in S : \A y \in S : x <= y

Take(s, n) == IF Len(s) <= n THEN s ELSE SubSeq(s, 1, n)

Zeros(n) == [i \in 1..n |-> 0]

----------------------------------------------------------------------------
(* Block images.  A block is BLOCK_SIZE raw bytes; the program reads it as *)
(* file bytes, as an array of int or as an array of dir_entry_t.  The      *)
(* image records which of these was written last and its value.            *)

ZeroBlock == [kind |-> "zero", bytes |-> <<>>, ptrs |-> <<>>, ents |-> <<>>]

DataBlock(b) == [kind |-> "data", bytes |-> b, ptrs |-> <<>>, ents |-> <<>>]

PtrBlock(p) == [kind |-> "ptrs", bytes |-> <<>>, ptrs |-> p, ents |-> <<>>]

DirBlock(e) == [kind |-> "dir", bytes |-> <<>>, ptrs |-> <<>>, ents |-> e]

FreeEntry == [name |-> <<>>, inode_num |-> -1]

\* a block of another kind seen through the wrong type: the zero image reads
\* as zeros; any other image reads as non-zero words
AsBytes(img) ==
    IF img.kind = "data" THEN img.bytes
    ELSE IF img.kind = "zero" THEN Zeros(BLOCK_SIZE)
    ELSE [i \in 1..BLOCK_SIZE |-> 1]

AsPtrs(img) ==
    IF img.kind = "ptrs" THEN img.ptrs
    ELSE IF img.kind = "zero" THEN Zeros(indirect_blocks_per_block)
    ELSE [i \in 1..indirect_blocks_per_block |-> 1]

AsEntries(img) ==
    IF img.kind = "dir" THEN img.ents
    ELSE IF img.kind = "zero"
         THEN [i \in 1..DIR_ENTRIES_PER_BLOCK |-> [name |-> <<>>, inode_num |-> 0]]
    ELSE [i \in 1..DIR_ENTRIES_PER_BLOCK |-> [name |-> <<"?">>, inode_num |-> 1]]

----------------------------------------------------------------------------
(* Inode records *)

ZeroInode ==
    [type |-> 0, size |-> 0, num_direct |-> 0,
     direct_blocks |-> Zeros(MAX_DIRECT_BLOCKS),
     indirect_block |-> 0, double_indirect_block |-> 0, triple_indirect_block |-> 0]

\* a variant that forgets the triple-indirect field
NewInode_no_triple(t) ==
    [ZeroInode EXCEPT !.type = t, !.indirect_block = -1, !.double_indirect_block = -1]

\* memset(&inode, 0, ...); type = t; size = 0; num_direct = 0; the three
\* indirect fields = -1
NewInode(t) ==
    [ZeroInode EXCEPT !.type = t, !.indirect_block = -1,
                      !.double_indirect_block = -1, !.triple_indirect_block = -1]

----------------------------------------------------------------------------
(* The segment files as one value *)

EmptyFS == [ibm |-> <<>>, itab |-> <<>>, dbm |-> <<>>, dblk |-> <<>>]

\* the files that exist
HasInodeSeg(fs, seg) == seg >= 0 /\ seg < Len(fs.ibm)
HasDataSeg(fs, seg) == seg >= 0 /\ seg < Len(fs.dbm)

\* records are numbered from 0: record n is element n + 1
InodeAt(fs, n) == fs.itab[n + 1]
BlockAt(fs, b) == fs.dblk[b + 1]

\* a variant that returns the highest clear bit
find_free_bit_highest(bitmap, num_bits) ==
    LET free == {i \in 0..(num_bits - 1) : i \notin bitmap}
    IN IF free = {} THEN -1 ELSE CHOOSE i \in free : \A j \in free : j <= i

find_free_bit(bitmap, num_bits) ==
    LET free == {i \in 0..(num_bits - 1) : i \notin bitmap}
    IN IF free = {} THEN -1 ELSE Min(free)

set_bit(bitmap, bit) == bitmap \cup {bit}

clear_bit(bitmap, bit) == bitmap \ {bit}

read_inode(fs, inode_num) ==
    LET segment_number == inode_num \div num_inodes
    IN IF inode_num >= 0 /\ HasInodeSeg(fs, segment_number)
       THEN [rc |-> 0, inode |-> InodeAt(fs, inode_num)]
       ELSE [rc |-> -1, inode |-> ZeroInode]

write_inode(fs, inode_num, in_inode) ==
    LET segment_number == inode_num \div num_inodes
    IN IF inode_num >= 0 /\ HasInodeSeg(fs, segment_number)
       THEN [rc |-> 0, fs |-> [fs EXCEPT !.itab[inode_num + 1] = in_inode]]
       ELSE [rc |-> -1, fs |-> fs]

free_inode(fs, inode_num) ==
    LET segment_number == inode_num \div num_inodes
        index_in_segment == inode_num % num_inodes
    IN IF inode_num >= 0 /\ HasInodeSeg(fs, segment_number)
       THEN [fs EXCEPT !.ibm[segment_number + 1] = clear_bit(@, index_in_segment)]
       ELSE fs

read_block(fs, block_id) ==
    LET segment_number == block_id \div num_blocks
    IN IF block_id >= 0 /\ HasDataSeg(fs, segment_number)
       THEN [rc |-> 0, img |-> BlockAt(fs, block_id)]
       ELSE [rc |-> -1, img |-> ZeroBlock]

write_block(fs, block_id, img) ==
    LET segment_number == block_id \div num_blocks
    IN IF block_id >= 0 /\ HasDataSeg(fs, segment_number)
       THEN [rc |-> 0, fs |-> [fs EXCEPT !.dblk[block_id + 1] = img]]
       ELSE [rc |-> -1, fs |-> fs]

free_block(fs, block_id) ==
    LET segment_number == block_id \div num_blocks
        block_index == block_id % num_blocks
    IN IF block_id >= 0 /\ HasDataSeg(fs, segment_number)
       THEN [fs EXCEPT !.dbm[segment_number + 1] = clear_bit(@, block_index)]
       ELSE fs

\* a variant that does not set up the root directory
create_new_segment_no_root(fs, segment_number, is_inode) ==
    IF is_inode
    THEN [fs EXCEPT !.ibm = Append(@, {}),
                    !.itab = @ \o [i \in 1..num_inodes |-> ZeroInode]]
    ELSE [fs EXCEPT !.dbm = Append(@, {}),
                    !.dblk = @ \o [i \in 1..num_blocks |-> ZeroBlock]]

\* fopen(.., "wb") and SEGMENT_SIZE zero bytes; inode segment 0 also gets the
\* root directory.  The callers create the segment after the last existing one.
create_new_segment(fs, segment_number, is_inode) ==
    IF is_inode
    THEN LET z == [fs EXCEPT !.ibm = Append(@, {}),
                             !.itab = @ \o [i \in 1..num_inodes |-> ZeroInode]]
         IN IF segment_number = 0
            THEN write_inode([z EXCEPT !.ibm[1] = set_bit({}, ROOT_DIR_INODE)],
                             ROOT_DIR_INODE, NewInode(INODE_DIR)).fs
            ELSE z
    ELSE [fs EXCEPT !.dbm = Append(@, {}),
                    !.dblk = @ \o [i \in 1..num_blocks |-> ZeroBlock]]

\* a variant that returns the free inode without setting its bit
RECURSIVE allocate_inode_from_unmarked(_, _)
allocate_inode_from_unmarked(fs, segment_number) ==
    IF ~HasInodeSeg(fs, segment_number)
    THEN allocate_inode_from_unmarked(create_new_segment(fs, segment_number, TRUE),
                                      segment_number)
    ELSE LET free_inode_bit == find_free_bit(fs.ibm[segment_number + 1], num_inodes)
         IN IF free_inode_bit >= 0
            THEN [fs |-> fs, id |-> segment_number * num_inodes + free_inode_bit]
            ELSE allocate_inode_from_unmarked(fs, segment_number + 1)

\* allocate_inode, scanning from inode segment segment_number: the segment
\* is created when missing, the lowest free bit is set and returned
RECURSIVE allocate_inode_from(_, _)
allocate_inode_from(fs, segment_number) ==
    IF ~HasInodeSeg(fs, segment_number)
    THEN allocate_inode_from(create_new_segment(fs, segment_number, TRUE),
                             segment_number)
    ELSE LET free_inode_bit == find_free_bit(fs.ibm[segment_number + 1], num_inodes)
         IN IF free_inode_bit >= 0
            THEN [fs |-> [fs EXCEPT !.ibm[segment_number + 1] =
                                        set_bit(@, free_inode_bit)],
                  id |-> segment_number * num_inodes + free_inode_bit]
            ELSE allocate_inode_from(fs, segment_number + 1)

allocate_inode(fs) == allocate_inode_from(fs, 0)

\* a variant that writes a new data segment over segment 0 before it looks
\* for a free bit in a segment that does not exist yet
RECURSIVE allocate_block_from_rezero(_, _)
allocate_block_from_rezero(fs, segment_number) ==
    IF ~HasDataSeg(fs, segment_number)
    THEN allocate_block_from_rezero(
             [create_new_segment(fs, segment_number, FALSE) EXCEPT
                  !.dblk = [i \in DOMAIN @ |->
                               IF i <= num_blocks THEN ZeroBlock ELSE @[i]]],
             segment_number)
    ELSE LET free_block_bit == find_free_bit(fs.dbm[segment_number + 1], num_blocks)
         IN IF free_block_bit >= 0
            THEN [fs |-> [fs EXCEPT !.dbm[segment_number + 1] =
                                        set_bit(@, free_block_bit)],
                  id |-> segment_number * num_blocks + free_block_bit]
            ELSE allocate_block_from_rezero(fs, segment_number + 1)

RECURSIVE allocate_block_from(_, _)
allocate_block_from(fs, segment_number) ==
    IF ~HasDataSeg(fs, segment_number)
    THEN allocate_block_from(create_new_segment(fs, segment_number, FALSE),
                             segment_number)
    ELSE LET free_block_bit == find_free_bit(fs.dbm[segment_number + 1], num_blocks)
         IN IF free_block_bit >= 0
            THEN [fs |-> [fs EXCEPT !.dbm[segment_number + 1] =
                                        set_bit(@, free_block_bit)],
                  id |-> segment_number * num_blocks + free_block_bit]
            ELSE allocate_block_from(fs, segment_number + 1)

allocate_block(fs) == allocate_block_from(fs, 0)

\* init_fs: nothing when inode_seg_0 exists, else inode segment 0 (with the
\* root directory) and data segment 0
init_fs(fs) ==
    IF HasInodeSeg(fs, 0) THEN fs
    ELSE create_new_segment(create_new_segment(fs, 0, TRUE), 0, FALSE)

----------------------------------------------------------------------------
(* Directory layer *)

load_directory_entries(fs, block_id) ==
    LET r == read_block(fs, block_id)
    IN [rc |-> r.rc, entries |-> AsEntries(r.img)]

save_directory_entries(fs, block_id, entries) ==
    write_block(fs, block_id, DirBlock(entries))

\* a variant whose inner loop starts one entry late
RECURSIVE find_entry_from_late(_, _, _, _)
find_entry_from_late(fs, dir_inode, name, i) ==
    IF i >= dir_inode.num_direct THEN -1
    ELSE LET r == load_directory_entries(fs, dir_inode.direct_blocks[i + 1])
             hits == {j \in 2..DIR_ENTRIES_PER_BLOCK :
                         r.entries[j].inode_num # -1 /\ r.entries[j].name = name}
         IN IF r.rc = 0 /\ hits # {}
            THEN r.entries[Min(hits)].inode_num
            ELSE find_entry_from_late(fs, dir_inode, name, i + 1)

RECURSIVE find_entry_from(_, _, _, _)
find_entry_from(fs, dir_inode, name, i) ==
    IF i >= dir_inode.num_direct THEN -1
    ELSE LET r == load_directory_entries(fs, dir_inode.direct_blocks[i + 1])
             hits == {j \in 1..DIR_ENTRIES_PER_BLOCK :
                         r.entries[j].inode_num # -1 /\ r.entries[j].name = name}
         IN IF r.rc = 0 /\ hits # {}
            THEN r.entries[Min(hits)].inode_num
            ELSE find_entry_from(fs, dir_inode, name, i + 1)

find_entry_in_dir(fs, dir_inode, name) ==
    IF dir_inode.type # INODE_DIR THEN -1
    ELSE find_entry_from(fs, dir_inode, name, 0)

\* strncpy(dst, name, MAX_FILENAME - 1); dst[MAX_FILENAME - 1] = 0
CopyName(name) == Take(name, MAX_FILENAME - 1)

\* a variant that never finds a free slot
fill_free_slot_none(fs, dir_inode, name, child_inode_num, i) ==
    [found |-> FALSE, fs |-> fs]

\* a variant that takes the last free entry of a block
RECURSIVE fill_free_slot_last(_, _, _, _, _)
fill_free_slot_last(fs, dir_inode, name, child_inode_num, i) ==
    IF i >= dir_inode.num_direct THEN [found |-> FALSE, fs |-> fs]
    ELSE LET block_id == dir_inode.direct_blocks[i + 1]
             r == load_directory_entries(fs, block_id)
             free == {j \in 1..DIR_ENTRIES_PER_BLOCK : r.entries[j].inode_num = -1}
         IN IF r.rc = 0 /\ free # {}
            THEN [found |-> TRUE,
                  fs |-> save_directory_entries(fs, block_id,
                            [r.entries EXCEPT
                                ![CHOOSE j \in free : \A k \in free : k <= j] =
                                    [name |-> CopyName(name),
                                     inode_num |-> child_inode_num]]).fs]
            ELSE fill_free_slot_last(fs, dir_inode, name, child_inode_num, i + 1)

\* the loop over the existing blocks looking for an entry with inode_num == -1
RECURSIVE fill_free_slot(_, _, _, _, _)
fill_free_slot(fs, dir_inode, name, child_inode_num, i) ==
    IF i >= dir_inode.num_direct THEN [found |-> FALSE, fs |-> fs]
    ELSE LET block_id == dir_inode.direct_blocks[i + 1]
             r == load_directory_entries(fs, block_id)
             free == {j \in 1..DIR_ENTRIES_PER_BLOCK : r.entries[j].inode_num = -1}
         IN IF r.rc = 0 /\ free # {}
            THEN [found |-> TRUE,
                  fs |-> save_directory_entries(fs, block_id,
                            [r.entries EXCEPT ![Min(free)] =
                                [name |-> CopyName(name),
                                 inode_num |-> child_inode_num]]).fs]
            ELSE fill_free_slot(fs, dir_inode, name, child_inode_num, i + 1)

\* a variant of the new block that leaves entries[0] free
FreshEntries_empty(name, child_inode_num) ==
    [j \in 1..DIR_ENTRIES_PER_BLOCK |-> FreeEntry]

\* the new block of a directory: every entry free, the new entry at index 0
FreshEntries(name, child_inode_num) ==
    [j \in 1..DIR_ENTRIES_PER_BLOCK |->
        IF j = 1 THEN [name |-> CopyName(name), inode_num |-> child_inode_num]
        ELSE FreeEntry]

\* a variant that allocates the block before it tests num_direct
add_entry_to_dir_alloc_first(fs, dir_inode, dir_inode_num, name, child_inode_num) ==
    LET fail == [rc |-> -1, fs |-> fs, dir_inode |-> dir_inode]
    IN IF dir_inode.type # INODE_DIR THEN fail
       ELSE IF find_entry_in_dir(fs, dir_inode, name) # -1 THEN fail
       ELSE LET s == fill_free_slot(fs, dir_inode, name, child_inode_num, 0)
            IN IF s.found THEN [rc |-> 0, fs |-> s.fs, dir_inode |-> dir_inode]
               ELSE LET a == allocate_block(fs)
                        w == save_directory_entries(a.fs, a.id,
                                 FreshEntries(name, child_inode_num))
                        d == [dir_inode EXCEPT
                                 !.direct_blocks[dir_inode.num_direct + 1] = a.id,
                                 !.num_direct = @ + 1,
                                 !.size = @ + BLOCK_SIZE]
                    IN IF dir_inode.num_direct >= MAX_DIRECT_BLOCKS
                       THEN [rc |-> -1, fs |-> a.fs, dir_inode |-> dir_inode]
                       ELSE [rc |-> 0, fs |-> write_inode(w.fs, dir_inode_num, d).fs,
                             dir_inode |-> d]

\* result: rc, the segment files, and the caller's inode_t (updated in place)
add_entry_to_dir(fs, dir_inode, dir_inode_num, name, child_inode_num) ==
    LET fail == [rc |-> -1, fs |-> fs, dir_inode |-> dir_inode]
    IN IF dir_inode.type # INODE_DIR THEN fail
       ELSE IF find_entry_in_dir(fs, dir_inode, name) # -1 THEN fail
       ELSE LET s == fill_free_slot(fs, dir_inode, name, child_inode_num, 0)
            IN IF s.found THEN [rc |-> 0, fs |-> s.fs, dir_inode |-> dir_inode]
               ELSE IF dir_inode.num_direct >= MAX_DIRECT_BLOCKS THEN fail
               ELSE LET a == allocate_block(fs)
                        w == save_directory_entries(a.fs, a.id,
                                 FreshEntries(name, child_inode_num))
                        d == [dir_inode EXCEPT
                                 !.direct_blocks[dir_inode.num_direct + 1] = a.id,
                                 !.num_direct = @ + 1,
                                 !.size = @ + BLOCK_SIZE]
                    IN [rc |-> 0, fs |-> write_inode(w.fs, dir_inode_num, d).fs,
                        dir_inode |-> d]

----------------------------------------------------------------------------
(* Paths.  A path is a string, modelled as a sequence of characters. *)

\* a variant that keeps the empty tokens
RECURSIVE Tokens_keep_empty(_, _, _)
Tokens_keep_empty(s, cur, acc) ==
    IF s = <<>> THEN Append(acc, cur)
    ELSE IF Head(s) = "/"
         THEN Tokens_keep_empty(Tail(s), <<>>, Append(acc, cur))
         ELSE Tokens_keep_empty(Tail(s), Append(cur, Head(s)), acc)

\* strtok(start, "/"): the maximal runs of characters other than '/'
RECURSIVE Tokens(_, _, _)
Tokens(s, cur, acc) ==
    IF s = <<>> THEN (IF cur = <<>> THEN acc ELSE Append(acc, cur))
    ELSE IF Head(s) = "/"
         THEN Tokens(Tail(s), <<>>, IF cur = <<>> THEN acc ELSE Append(acc, cur))
         ELSE Tokens(Tail(s), Append(cur, Head(s)), acc)

\* the parts of a path, at most MAX_PARTS of them, each cut to MAX_FILENAME - 1
split_path(path) ==
    IF path = <<>> \/ path = <<"/">> THEN <<>>
    ELSE LET path_copy == Take(path, MAX_PATH - 1)
             start == IF Head(path_copy) = "/" THEN Tail(path_copy) ELSE path_copy
             toks == Take(Tokens(start, <<>>, <<>>), MAX_PARTS)
         IN [i \in 1..Len(toks) |-> CopyName(toks[i])]

----------------------------------------------------------------------------
(* exfs2_add *)

\* the bytes fread() delivers in iteration k (from 0) of the copy loop
Chunk(src, k) ==
    SubSeq(src, k * BLOCK_SIZE + 1,
           IF (k + 1) * BLOCK_SIZE < Len(src) THEN (k + 1) * BLOCK_SIZE ELSE Len(src))

\* memset(buffer + bytes_read, 0, BLOCK_SIZE - bytes_read)
Pad(chunk) == chunk \o Zeros(BLOCK_SIZE - Len(chunk))

NumChunks(src) == (Len(src) + BLOCK_SIZE - 1) \div BLOCK_SIZE

\* double_indirect_block[idx] as the loop reads it.  The array has
\* indirect_blocks_per_block elements; an index past its end reads the memory
\* after it: a word stored there earlier in this call (beyond), else a word
\* the program never set (oob: 0, or 1 for any non-zero word).
DoubleAt(dbl, beyond, oob, idx) ==
    IF idx < indirect_blocks_per_block THEN dbl[idx + 1]
    ELSE IF idx - indirect_blocks_per_block < Len(beyond)
         THEN beyond[idx - indirect_blocks_per_block + 1]
    ELSE oob

\* a variant that allocates the single-indirect block before the first data block
CopyStart_eager(a) ==
    [fs |-> allocate_block(a.fs).fs, file_inode_num |-> a.id,
     file_inode |-> [NewInode(INODE_FILE) EXCEPT
                        !.indirect_block = allocate_block(a.fs).id],
     block_id |-> -1,
     indirect_block |-> Zeros(indirect_blocks_per_block),
     double_indirect_block |-> Zeros(indirect_blocks_per_block),
     total_blocks |-> 0, indirect_count |-> 0,
     double_indirect_level1_count |-> 0, double_indirect_level2_count |-> 0,
     beyond |-> <<>>]

\* the locals of exfs2_add at the start of the copy loop; a is the result of
\* allocate_inode().  beyond: the words the call stored past the end of
\* double_indirect_block[]
CopyStart(a) ==
    [fs |-> a.fs, file_inode_num |-> a.id, file_inode |-> NewInode(INODE_FILE),
     block_id |-> -1,
     indirect_block |-> Zeros(indirect_blocks_per_block),
     double_indirect_block |-> Zeros(indirect_blocks_per_block),
     total_blocks |-> 0, indirect_count |-> 0,
     double_indirect_level1_count |-> 0, double_indirect_level2_count |-> 0,
     beyond |-> <<>>]

\* block_id = allocate_block(); the zero padding; write_block(block_id, buffer)
TakeDataBlock(st, chunk) ==
    LET a == allocate_block(st.fs)
    IN [st EXCEPT !.fs = write_block(a.fs, a.id, DataBlock(Pad(chunk))).fs,
                  !.block_id = a.id]

\* total_blocks < MAX_DIRECT_BLOCKS
PutDirect(st) ==
    [st EXCEPT !.file_inode.direct_blocks[st.file_inode.num_direct + 1] = st.block_id,
               !.file_inode.num_direct = @ + 1]

\* if (file_inode.indirect_block == -1) allocate and memset, else read_block
OpenIndirect(st) ==
    IF st.file_inode.indirect_block = -1
    THEN LET a == allocate_block(st.fs)
         IN [st EXCEPT !.fs = a.fs,
                       !.file_inode.indirect_block = a.id,
                       !.indirect_block = Zeros(indirect_blocks_per_block)]
    ELSE [st EXCEPT !.indirect_block =
                        AsPtrs(read_block(st.fs, st.file_inode.indirect_block).img)]

\* a variant that fills the single-indirect block from its last slot down
StoreIndirect_reversed(st) ==
    LET stored == [st.indirect_block EXCEPT
                      ![indirect_blocks_per_block - st.indirect_count] = st.block_id]
    IN [st EXCEPT !.indirect_block = stored,
                  !.indirect_count = @ + 1,
                  !.fs = write_block(st.fs, st.file_inode.indirect_block,
                                     PtrBlock(stored)).fs]

\* indirect_block[indirect_count++] = block_id; write_block(...)
StoreIndirect(st) ==
    LET stored == [st.indirect_block EXCEPT ![st.indirect_count + 1] = st.block_id]
    IN [st EXCEPT !.indirect_block = stored,
                  !.indirect_count = @ + 1,
                  !.fs = write_block(st.fs, st.file_inode.indirect_block,
                                     PtrBlock(stored)).fs]

\* total_blocks < MAX_DIRECT_BLOCKS + BLOCK_SIZE / sizeof(int)
PutIndirect(st) == StoreIndirect(OpenIndirect(st))

\* if (file_inode.double_indirect_block == -1) allocate, memset and write,
\* else read_block
OpenDouble(st) ==
    IF st.file_inode.double_indirect_block = -1
    THEN LET a == allocate_block(st.fs)
         IN [st EXCEPT !.fs = write_block(a.fs, a.id,
                                 PtrBlock(Zeros(indirect_blocks_per_block))).fs,
                       !.file_inode.double_indirect_block = a.id,
                       !.double_indirect_block = Zeros(indirect_blocks_per_block)]
    ELSE [st EXCEPT !.double_indirect_block =
                        AsPtrs(read_block(st.fs,
                                          st.file_inode.double_indirect_block).img)]

\* "If we need a new level 1 block": the test reads
\* double_indirect_block[double_indirect_level1_count], and the store
\* double_indirect_block[double_indirect_level1_count++] = new_level1_block
\* lands in the array or past its end
NewLevel1(st, oob) ==
    IF \/ st.double_indirect_level2_count >= indirect_blocks_per_block
       \/ DoubleAt(st.double_indirect_block, st.beyond, oob,
                   st.double_indirect_level1_count) = 0
    THEN LET n == allocate_block(st.fs)
             l1 == st.double_indirect_level1_count
         IN [st EXCEPT
                !.double_indirect_level2_count = 0,
                !.double_indirect_block =
                    IF l1 < indirect_blocks_per_block
                    THEN [@ EXCEPT ![l1 + 1] = n.id] ELSE @,
                !.beyond =
                    IF l1 >= indirect_blocks_per_block THEN Append(@, n.id) ELSE @,
                !.double_indirect_level1_count = @ + 1,
                !.fs = write_block(n.fs, n.id,
                           PtrBlock(Zeros(indirect_blocks_per_block))).fs]
    ELSE st

\* read the level 1 block, level1_data[double_indirect_level2_count++] =
\* block_id, write it back, write the double indirect block
StoreLevel2(st, oob) ==
    LET level1_block_id == DoubleAt(st.double_indirect_block, st.beyond, oob,
                                    st.double_indirect_level1_count - 1)
        level1_data == AsPtrs(read_block(st.fs, level1_block_id).img)
        stored == [level1_data EXCEPT
                      ![st.double_indirect_level2_count + 1] = st.block_id]
    IN [st EXCEPT
           !.double_indirect_level2_count = @ + 1,
           !.fs = write_block(
                      write_block(st.fs, level1_block_id, PtrBlock(stored)).fs,
                      st.file_inode.double_indirect_block,
                      PtrBlock(st.double_indirect_block)).fs]

\* the else branch: everything from MAX_DIRECT_BLOCKS + BLOCK_SIZE / sizeof(int) on
PutDouble(st, oob) == StoreLevel2(NewLevel1(OpenDouble(st), oob), oob)

\* "Track where to put this block based on total count", then total_blocks++
\* and file_inode.size += bytes_read
PlaceBlock(st, bytes_read, oob) ==
    [(IF st.total_blocks < MAX_DIRECT_BLOCKS THEN PutDirect(st)
      ELSE IF st.total_blocks < MAX_DIRECT_BLOCKS + indirect_blocks_per_block
           THEN PutIndirect(st)
      ELSE PutDouble(st, oob))
     EXCEPT !.total_blocks = @ + 1, !.file_inode.size = @ + bytes_read]

\* one iteration of while ((bytes_read = fread(...)) > 0)
CopyBlock(st, chunk, oob) == PlaceBlock(TakeDataBlock(st, chunk), Len(chunk), oob)

\* a variant that copies a block before it tests for the end of the source
RECURSIVE CopyLoop_once(_, _, _, _)
CopyLoop_once(st, src, k, oob) ==
    IF k >= NumChunks(src) /\ k > 0 THEN st
    ELSE CopyLoop_once(CopyBlock(st, Chunk(src, k), oob), src, k + 1, oob)

RECURSIVE CopyLoop(_, _, _, _)
CopyLoop(st, src, k, oob) ==
    IF k >= NumChunks(src) THEN st
    ELSE CopyLoop(CopyBlock(st, Chunk(src, k), oob), src, k + 1, oob)

\* a variant of the walk that allocates the inode of the next directory before
\* it looks at the type of the component it found
RECURSIVE add_walk_alloc_first(_, _, _, _, _)
add_walk_alloc_first(fs, parts, i, current_inode_num, current_inode) ==
    IF i >= Len(parts) - 1
    THEN [status |-> "ok", fs |-> fs, current_inode_num |-> current_inode_num,
          current_inode |-> current_inode]
    ELSE LET next_inode_num == find_entry_in_dir(fs, current_inode, parts[i + 1])
             stop(s, f) == [status |-> s, fs |-> f,
                            current_inode_num |-> current_inode_num,
                            current_inode |-> current_inode]
         IN IF next_inode_num = -1
            THEN LET a == allocate_inode(fs)
                     w == write_inode(a.fs, a.id, NewInode(INODE_DIR))
                     e == add_entry_to_dir(w.fs, current_inode, current_inode_num,
                                           parts[i + 1], a.id)
                 IN IF w.rc # 0 THEN stop("Failed to write new directory inode", w.fs)
                    ELSE IF e.rc # 0 THEN stop("Failed to add new directory entry", e.fs)
                    ELSE add_walk_alloc_first(e.fs, parts, i + 1, a.id,
                                              NewInode(INODE_DIR))
            ELSE LET r == read_inode(fs, next_inode_num)
                 IN IF r.rc # 0 THEN stop("Failed to read existing directory inode", fs)
                    ELSE IF r.inode.type # INODE_DIR
                         THEN stop("is not a directory", allocate_inode(fs).fs)
                    ELSE add_walk_alloc_first(fs, parts, i + 1, next_inode_num, r.inode)

\* for (i = 0; i < num_parts - 1; i++): walk, creating the missing directories
RECURSIVE add_walk(_, _, _, _, _)
add_walk(fs, parts, i, current_inode_num, current_inode) ==
    IF i >= Len(parts) - 1
    THEN [status |-> "ok", fs |-> fs, current_inode_num |-> current_inode_num,
          current_inode |-> current_inode]
    ELSE LET next_inode_num == find_entry_in_dir(fs, current_inode, parts[i + 1])
             stop(s, f) == [status |-> s, fs |-> f,
                            current_inode_num |-> current_inode_num,
                            current_inode |-> current_inode]
         IN IF next_inode_num = -1
            THEN LET a == allocate_inode(fs)
                     w == write_inode(a.fs, a.id, NewInode(INODE_DIR))
                     e == add_entry_to_dir(w.fs, current_inode, current_inode_num,
                                           parts[i + 1], a.id)
                 IN IF w.rc # 0 THEN stop("Failed to write new directory inode", w.fs)
                    ELSE IF e.rc # 0 THEN stop("Failed to add new directory entry", e.fs)
                    ELSE add_walk(e.fs, parts, i + 1, a.id, NewInode(INODE_DIR))
            ELSE LET r == read_inode(fs, next_inode_num)
                 IN IF r.rc # 0 THEN stop("Failed to read existing directory inode", fs)
                    ELSE IF r.inode.type # INODE_DIR THEN stop("is not a directory", fs)
                    ELSE add_walk(fs, parts, i + 1, next_inode_num, r.inode)

\* exfs2_add after the copy loop (c: its final state): the inode record, then
\* the entry in the parent w.current_inode
link_file(w, filename, c) ==
    LET wi == write_inode(c.fs, c.file_inode_num, c.file_inode)
        e == add_entry_to_dir(wi.fs, w.current_inode, w.current_inode_num,
                              filename, c.file_inode_num)
    IN IF wi.rc # 0 THEN [status |-> "Failed to write file inode", fs |-> wi.fs]
       ELSE [status |-> IF e.rc # 0 THEN "Failed to add file entry"
                        ELSE "added successfully",
             fs |-> e.fs]

\* a variant that takes the inode only after the local file has been opened
add_file_open_first(w, filename, local_file, oob) ==
    IF ~local_file.exists
    THEN [status |-> "Failed to open local file", fs |-> w.fs]
    ELSE link_file(w, filename,
                   CopyLoop(CopyStart(allocate_inode(w.fs)), local_file.bytes, 0, oob))

\* exfs2_add from allocate_inode() for the file on: fopen, the copy loop, the
\* inode record and the entry
add_file(w, filename, local_file, oob) ==
    IF ~local_file.exists
    THEN [status |-> "Failed to open local file", fs |-> allocate_inode(w.fs).fs]
    ELSE link_file(w, filename,
                   CopyLoop(CopyStart(allocate_inode(w.fs)), local_file.bytes, 0, oob))

\* a variant that leaves the duplicate to add_entry_to_dir
add_target_unchecked(w, filename, local_file, oob) ==
    IF w.status # "ok" THEN [status |-> w.status, fs |-> w.fs]
    ELSE add_file(w, filename, local_file, oob)

\* exfs2_add after the walk (w: its result): the final component must not
\* exist in the parent
add_target(w, filename, local_file, oob) ==
    IF w.status # "ok" THEN [status |-> w.status, fs |-> w.fs]
    ELSE IF find_entry_in_dir(w.fs, w.current_inode, filename) # -1
         THEN [status |-> "File already exists", fs |-> w.fs]
    ELSE add_file(w, filename, local_file, oob)

\* local_file: [exists, bytes]; oob: see DoubleAt.  Result: what was printed
\* last (status) and the segment files.
exfs2_add(fs, exfs2_path, local_file, oob) ==
    LET parts == split_path(exfs2_path)
        root == read_inode(fs, ROOT_DIR_INODE)
    IN IF Len(parts) = 0 THEN [status |-> "Invalid path", fs |-> fs]
       ELSE IF root.rc # 0 THEN [status |-> "Failed to read root inode", fs |-> fs]
       ELSE add_target(add_walk(fs, parts, 0, ROOT_DIR_INODE, root.inode),
                       parts[Len(parts)], local_file, oob)

----------------------------------------------------------------------------
(* exfs2_remove *)

\* a variant that stops one word early
RECURSIVE free_listed_short(_, _, _)
free_listed_short(fs, ptrs, i) ==
    IF i >= indirect_blocks_per_block - 1 THEN fs
    ELSE IF ptrs[i + 1] = 0 THEN fs
    ELSE free_listed_short(free_block(fs, ptrs[i + 1]), ptrs, i + 1)

\* free_block() on the leading non-zero words of an indirect block, from word i
RECURSIVE free_listed(_, _, _)
free_listed(fs, ptrs, i) ==
    IF i >= indirect_blocks_per_block THEN fs
    ELSE IF ptrs[i + 1] = 0 THEN fs
    ELSE free_listed(free_block(fs, ptrs[i + 1]), ptrs, i + 1)

\* a variant that frees no direct block
free_direct_none(fs, inode, i) == fs

\* for (i = 0; i < inode.num_direct; i++) free_block(inode.direct_blocks[i])
RECURSIVE free_direct(_, _, _)
free_direct(fs, inode, i) ==
    IF i >= inode.num_direct THEN fs
    ELSE free_direct(free_block(fs, inode.direct_blocks[i + 1]), inode, i + 1)

\* the INODE_FILE branch of exfs2_remove_recursive
remove_file(fs, inode_num, inode) ==
    LET fs1 == free_direct(fs, inode, 0)
        fs2 == IF inode.indirect_block # -1
               THEN LET r == read_block(fs1, inode.indirect_block)
                        fs1a == IF r.rc = 0 THEN free_listed(fs1, AsPtrs(r.img), 0)
                                ELSE fs1
                    IN free_block(fs1a, inode.indirect_block)
               ELSE fs1
    IN free_inode(fs2, inode_num)

\* a variant that does not descend into the entries
remove_entries_skip(fs, entries, j) == fs

RECURSIVE exfs2_remove_recursive(_, _), remove_entries(_, _, _), remove_dir_blocks(_, _, _)

\* for (j = 0; j < DIR_ENTRIES_PER_BLOCK; j++) of the directory branch
remove_entries(fs, entries, j) ==
    IF j >= DIR_ENTRIES_PER_BLOCK THEN fs
    ELSE IF entries[j + 1].inode_num # -1
         THEN remove_entries(exfs2_remove_recursive(fs, entries[j + 1].inode_num),
                             entries, j + 1)
    ELSE remove_entries(fs, entries, j + 1)

\* for (i = 0; i < inode.num_direct; i++) of the directory branch
remove_dir_blocks(fs, inode, i) ==
    IF i >= inode.num_direct THEN fs
    ELSE LET block_id == inode.direct_blocks[i + 1]
             r == load_directory_entries(fs, block_id)
         IN IF r.rc # 0 THEN remove_dir_blocks(fs, inode, i + 1)
            ELSE remove_dir_blocks(
                     free_block(remove_entries(fs, r.entries, 0), block_id),
                     inode, i + 1)

exfs2_remove_recursive(fs, inode_num) ==
    LET r == read_inode(fs, inode_num)
    IN IF r.rc # 0 THEN fs
       ELSE IF r.inode.type = INODE_FILE THEN remove_file(fs, inode_num, r.inode)
       ELSE IF r.inode.type = INODE_DIR
            THEN free_inode(remove_dir_blocks(fs, r.inode, 0), inode_num)
       ELSE fs

\* a variant that skips a component it does not find
RECURSIVE lookup_walk_skip(_, _, _, _, _, _)
lookup_walk_skip(fs, parts, i, upto, current_inode_num, current_inode) ==
    IF i >= upto
    THEN [status |-> "ok", current_inode_num |-> current_inode_num,
          current_inode |-> current_inode]
    ELSE LET next_inode_num == find_entry_in_dir(fs, current_inode, parts[i + 1])
             r == read_inode(fs, next_inode_num)
         IN IF next_inode_num = -1 \/ r.rc # 0
            THEN lookup_walk_skip(fs, parts, i + 1, upto, current_inode_num, current_inode)
            ELSE lookup_walk_skip(fs, parts, i + 1, upto, next_inode_num, r.inode)

\* the walk of exfs2_remove and exfs2_extract over parts[i .. upto - 1]
RECURSIVE lookup_walk(_, _, _, _, _, _)
lookup_walk(fs, parts, i, upto, current_inode_num, current_inode) ==
    IF i >= upto
    THEN [status |-> "ok", current_inode_num |-> current_inode_num,
          current_inode |-> current_inode]
    ELSE LET next_inode_num == find_entry_in_dir(fs, current_inode, parts[i + 1])
             r == read_inode(fs, next_inode_num)
             stop(s) == [status |-> s, current_inode_num |-> current_inode_num,
                         current_inode |-> current_inode]
         IN IF next_inode_num = -1 THEN stop("Path not found")
            ELSE IF r.rc # 0 THEN stop("Failed to read inode")
            ELSE lookup_walk(fs, parts, i + 1, upto, next_inode_num, r.inode)

\* a variant that leaves the entry in place
clear_entry_none(fs, dir_inode, target_inode_num, i) == fs

\* "Remove entry from directory": in every block of the parent, the first
\* entry whose inode_num is the target
RECURSIVE clear_entry(_, _, _, _)
clear_entry(fs, dir_inode, target_inode_num, i) ==
    IF i >= dir_inode.num_direct THEN fs
    ELSE LET block_id == dir_inode.direct_blocks[i + 1]
             r == load_directory_entries(fs, block_id)
             hits == {j \in 1..DIR_ENTRIES_PER_BLOCK :
                         r.entries[j].inode_num = target_inode_num}
         IN IF r.rc = 0 /\ hits # {}
            THEN clear_entry(
                     save_directory_entries(fs, block_id,
                         [r.entries EXCEPT ![Min(hits)] = FreeEntry]).fs,
                     dir_inode, target_inode_num, i + 1)
            ELSE clear_entry(fs, dir_inode, target_inode_num, i + 1)

\* a variant that gives the parent's last block back when the removal has
\* emptied it
remove_target_reclaim(fs, w, name) ==
    LET target_inode_num == find_entry_in_dir(fs, w.current_inode, name)
        g == clear_entry(exfs2_remove_recursive(fs, target_inode_num),
                         w.current_inode, target_inode_num, 0)
        d == w.current_inode
        last_block == d.direct_blocks[d.num_direct]
    IN IF w.status # "ok" THEN [status |-> w.status, fs |-> fs]
       ELSE IF target_inode_num = -1 THEN [status |-> "File not found", fs |-> fs]
       ELSE [status |-> "Removed successfully",
             fs |-> IF \A j \in 1..DIR_ENTRIES_PER_BLOCK :
                          load_directory_entries(g, last_block).entries[j].inode_num = -1
                    THEN write_inode(free_block(g, last_block), w.current_inode_num,
                                     [d EXCEPT !.num_direct = @ - 1,
                                               !.size = @ - BLOCK_SIZE]).fs
                    ELSE g]

\* exfs2_remove after the walk to the parent (w: its result): find the target,
\* remove it recursively, clear its entry
remove_target(fs, w, name) ==
    LET target_inode_num == find_entry_in_dir(fs, w.current_inode, name)
    IN IF w.status # "ok" THEN [status |-> w.status, fs |-> fs]
       ELSE IF target_inode_num = -1 THEN [status |-> "File not found", fs |-> fs]
       ELSE [status |-> "Removed successfully",
             fs |-> clear_entry(exfs2_remove_recursive(fs, target_inode_num),
                                w.current_inode, target_inode_num, 0)]

exfs2_remove(fs, exfs2_path) ==
    LET parts == split_path(exfs2_path)
        root == read_inode(fs, ROOT_DIR_INODE)
    IN IF Len(parts) = 0 THEN [status |-> "Invalid path", fs |-> fs]
       ELSE IF root.rc # 0 THEN [status |-> "Failed to read root inode", fs |-> fs]
       ELSE remove_target(fs,
                lookup_walk(fs, parts, 0, Len(parts) - 1, ROOT_DIR_INODE, root.inode),
                parts[Len(parts)])

----------------------------------------------------------------------------
(* exfs2_extract *)

\* read_block(id, buffer); fwrite(buffer, 1, to_write, stdout); remaining -= to_write
emit(fs, st, block_id) ==
    LET r == read_block(fs, block_id)
        to_write == IF st.remaining > BLOCK_SIZE THEN BLOCK_SIZE ELSE st.remaining
    IN IF r.rc # 0 THEN st
       ELSE [out |-> st.out \o Take(AsBytes(r.img), to_write),
             remaining |-> st.remaining - to_write]

\* for (i = 0; i < num_direct && remaining > 0; i++)
RECURSIVE emit_direct(_, _, _, _)
emit_direct(fs, st, inode, i) ==
    IF i >= inode.num_direct \/ st.remaining <= 0 THEN st
    ELSE emit_direct(fs, emit(fs, st, inode.direct_blocks[i + 1]), inode, i + 1)

\* the nested loops over an indirect block of the given level (1: its words
\* are data blocks; 2, 3: its words are indirect blocks one level lower),
\* each stopping at the first word 0 or when remaining reaches 0
RECURSIVE emit_tree(_, _, _, _), emit_words(_, _, _, _, _)
emit_tree(fs, st, block_id, level) ==
    LET r == read_block(fs, block_id)
    IN IF r.rc # 0 THEN st ELSE emit_words(fs, st, AsPtrs(r.img), level, 0)

emit_words(fs, st, ptrs, level, i) ==
    IF i >= indirect_blocks_per_block \/ st.remaining <= 0 THEN st
    ELSE IF ptrs[i + 1] = 0 THEN st
    ELSE emit_words(fs,
                    IF level = 1 THEN emit(fs, st, ptrs[i + 1])
                    ELSE emit_tree(fs, st, ptrs[i + 1], level - 1),
                    ptrs, level, i + 1)

\* if (inode.<level>_indirect_block != -1 && remaining > 0)
emit_indirect(fs, st, block_id, level) ==
    IF block_id # -1 /\ st.remaining > 0 THEN emit_tree(fs, st, block_id, level)
    ELSE st

\* the bytes of file inode f: direct, single, double and triple indirect
emit_file(fs, f) ==
    emit_indirect(fs,
        emit_indirect(fs,
            emit_indirect(fs,
                emit_direct(fs, [out |-> <<>>, remaining |-> f.size], f, 0),
                f.indirect_block, 1),
            f.double_indirect_block, 2),
        f.triple_indirect_block, 3)

\* exfs2_extract after the walk (w: its result)
extract_target(fs, w) ==
    IF w.status # "ok" THEN [status |-> w.status, out |-> <<>>]
    ELSE IF w.current_inode.type # INODE_FILE
         THEN [status |-> "Not a regular file", out |-> <<>>]
    ELSE [status |-> "ok", out |-> emit_file(fs, w.current_inode).out]

\* result: what was printed on stderr (status) and the bytes on stdout
exfs2_extract(fs, exfs2_path) ==
    LET parts == split_path(exfs2_path)
        root == read_inode(fs, ROOT_DIR_INODE)
    IN IF Len(parts) = 0 THEN [status |-> "Invalid path", out |-> <<>>]
       ELSE IF root.rc # 0
            THEN [status |-> "Failed to read root inode", out |-> <<>>]
       ELSE extract_target(fs,
                lookup_walk(fs, parts, 0, Len(parts), ROOT_DIR_INODE, root.inode))

----------------------------------------------------------------------------
(* exfs2_list and exfs2_debug: what they print, as values *)

RECURSIVE exfs2_list_recursive(_, _, _), list_entries(_, _, _, _),
          list_blocks(_, _, _, _)

\* one printed line: the indentation, the name, and "/" after a directory;
\* below a directory its own listing, one level deeper
list_line(fs, entry, depth) ==
    IF read_inode(fs, entry.inode_num).rc = 0
       /\ read_inode(fs, entry.inode_num).inode.type = INODE_DIR
    THEN <<[depth |-> depth, name |-> entry.name, dir |-> TRUE]>>
         \o exfs2_list_recursive(fs, entry.inode_num, depth + 1)
    ELSE <<[depth |-> depth, name |-> entry.name, dir |-> FALSE]>>

\* for (j = 0; j < DIR_ENTRIES_PER_BLOCK; j++) if (entries[j].inode_num != -1)
list_entries(fs, entries, j, depth) ==
    IF j >= DIR_ENTRIES_PER_BLOCK THEN <<>>
    ELSE IF entries[j + 1].inode_num = -1 THEN list_entries(fs, entries, j + 1, depth)
    ELSE list_line(fs, entries[j + 1], depth) \o list_entries(fs, entries, j + 1, depth)

\* for (i = 0; i < inode.num_direct; i++)
list_blocks(fs, inode, i, depth) ==
    IF i >= inode.num_direct THEN <<>>
    ELSE IF load_directory_entries(fs, inode.direct_blocks[i + 1]).rc # 0
         THEN list_blocks(fs, inode, i + 1, depth)
    ELSE list_entries(fs, load_directory_entries(fs, inode.direct_blocks[i + 1]).entries,
                      0, depth)
         \o list_blocks(fs, inode, i + 1, depth)

exfs2_list_recursive(fs, inode_num, depth) ==
    IF read_inode(fs, inode_num).rc # 0 THEN <<>>
    ELSE IF read_inode(fs, inode_num).inode.type # INODE_DIR THEN <<>>
    ELSE list_blocks(fs, read_inode(fs, inode_num).inode, 0, depth)

\* "/" for the root, then the tree
exfs2_list(fs) ==
    <<[depth |-> 0, name |-> <<>>, dir |-> TRUE]>>
    \o exfs2_list_recursive(fs, ROOT_DIR_INODE, 1)

\* the non-zero words of an int array read from a block, counted
count_nonzero(words) ==
    Cardinality({i \in 1..indirect_blocks_per_block : words[i] # 0})

\* exfs2_debug, "Double indirect blocks summary": level1_count and
\* double_indirect_count of a file inode
RECURSIVE debug_level1_sum(_, _, _)
debug_level1_sum(fs, words, i) ==
    IF i >= indirect_blocks_per_block THEN 0
    ELSE (IF words[i + 1] # 0 /\ read_block(fs, words[i + 1]).rc = 0
          THEN count_nonzero(AsPtrs(read_block(fs, words[i + 1]).img))
          ELSE 0)
         + debug_level1_sum(fs, words, i + 1)

debug_double_indirect(fs, inode) ==
    IF inode.double_indirect_block # -1
       /\ read_block(fs, inode.double_indirect_block).rc = 0
    THEN [level1_count |->
              count_nonzero(AsPtrs(read_block(fs, inode.double_indirect_block).img)),
          double_indirect_count |->
              debug_level1_sum(fs,
                  AsPtrs(read_block(fs, inode.double_indirect_block).img), 0)]
    ELSE [level1_count |-> 0, double_indirect_count |-> 0]

----------------------------------------------------------------------------
(* The commands and their inputs *)

\* the paths given to the commands: "/", three names in the root, one below
Paths ==
    { <<"/">>,
      <<"/", "a">>, <<"/", "b">>, <<"/", "c">>,
      <<"/", "a", "/", "b">> }

\* the longest source file: D + 3P blocks.  From D + 2P + 1 blocks on the copy
\* loop indexes double_indirect_block[] past its end
MaxSrcBlocks == MAX_DIRECT_BLOCKS + 3 * indirect_blocks_per_block

\* sizes of the source files, in bytes: empty; part of one block; D + 1 blocks;
\* D + 2P blocks; D + 3P blocks, the last block partial
SrcLens ==
    { 0, 1,
      BLOCK_SIZE * (MAX_DIRECT_BLOCKS + 1),
      BLOCK_SIZE * (MAX_DIRECT_BLOCKS + 2 * indirect_blocks_per_block),
      BLOCK_SIZE * MaxSrcBlocks - 1 }

\* the bytes of a source file of n bytes: the values 1, 2, 0 in turn
Pattern(n) == [i \in 1..n |-> i % 3]

\* the local files: one that cannot be opened, and one of each size
LocalFiles ==
    {[exists |-> FALSE, bytes |-> <<>>]} \cup
    {[exists |-> TRUE, bytes |-> Pattern(n)] : n \in SrcLens}

\* the values of the word after double_indirect_block[] that a call can find:
\* only a source of more than D + 2P blocks makes the call read it
OobWords(local_file) ==
    IF NumChunks(local_file.bytes) >
           MAX_DIRECT_BLOCKS + 2 * indirect_blocks_per_block
    THEN {0, 1} ELSE {0}

FS == [ibm |-> inode_bitmap, itab |-> inode_table, dbm |-> data_bitmap, dblk |-> data_blocks]

\* the two bitmaps of every segment
Bitmaps(fs) == [ibm |-> fs.ibm, dbm |-> fs.dbm]

SetFS(fs) ==
    /\ inode_bitmap' = fs.ibm
    /\ inode_table' = fs.itab
    /\ data_bitmap' = fs.dbm
    /\ data_blocks' = fs.dblk

\* main() runs init_fs() before every command; the first run creates the segments
Init ==
    /\ inode_bitmap = init_fs(EmptyFS).ibm
    /\ inode_table = init_fs(EmptyFS).itab
    /\ data_bitmap = init_fs(EmptyFS).dbm
    /\ data_blocks = init_fs(EmptyFS).dblk
    /\ last = [op |-> "init", path |-> <<>>, src |-> <<>>, status |-> "ok",
               out |-> <<>>, before |-> Bitmaps(EmptyFS)]
    /\ steps = 0

\* a run of the program that leaves r.fs in the segment files and printed
\* r.status and, on stdout, r.out
Run(op, path, src, r) ==
    /\ steps' = steps + 1
    /\ SetFS(r.fs)
    /\ last' = [op |-> op, path |-> path, src |-> src, status |-> r.status,
                out |-> r.out, before |-> Bitmaps(FS)]

\* exfs2_add and exfs2_remove write no file contents to stdout
Silent(r) == [status |-> r.status, fs |-> r.fs, out |-> <<>>]

\* exfs2_extract changes no segment file
Printed(fs, r) == [status |-> r.status, fs |-> fs, out |-> r.out]

\* ./exfs2 -a path -f local_file
Add(path, local_file, oob) ==
    /\ steps < MaxCommands
    /\ Run("add", path, local_file.bytes,
           Silent(exfs2_add(init_fs(FS), path, local_file, oob)))

\* ./exfs2 -r path
Remove(path) ==
    /\ steps < MaxCommands
    /\ Run("remove", path, <<>>, Silent(exfs2_remove(init_fs(FS), path)))

\* ./exfs2 -e path
Extract(path) ==
    /\ steps < MaxCommands
    /\ Run("extract", path, <<>>,
           Printed(init_fs(FS), exfs2_extract(init_fs(FS), path)))

Next ==
    \/ \E path \in Paths, local_file \in LocalFiles :
           \E oob \in OobWords(local_file) : Add(path, local_file, oob)
    \/ \E path \in Paths : Remove(path)
    \/ \E path \in Paths : Extract(path)

Spec == Init /\ [][Next]_vars

\* A second set of inputs: a chain of directories /a/b/c with a file t below
\* it and a sibling /b of the chain; sources of one block, of D blocks, of
\* D + 1 blocks, and of one block more than the double-indirect range
\* (D + P + P * P blocks) holds.
DeepPaths ==
    { <<"/", "a">>, <<"/", "b">>,
      <<"/", "a", "/", "b">>,
      <<"/", "a", "/", "b", "/", "c">>,
      <<"/", "a", "/", "b", "/", "c", "/", "t">> }

TripleSrcBlocks ==
    MAX_DIRECT_BLOCKS + indirect_blocks_per_block
    + indirect_blocks_per_block * indirect_blocks_per_block + 1

DeepFiles ==
    {[exists |-> TRUE, bytes |-> Pattern(n)] :
        n \in {1, BLOCK_SIZE * MAX_DIRECT_BLOCKS,
                BLOCK_SIZE * (MAX_DIRECT_BLOCKS + 1),
                BLOCK_SIZE * TripleSrcBlocks - 1}}

NextDeep ==
    \/ \E path \in DeepPaths, local_file \in DeepFiles :
           \E oob \in OobWords(local_file) : Add(path, local_file, oob)
    \/ \E path \in DeepPaths : Remove(path)
    \/ \E path \in DeepPaths : Extract(path)

SpecDeep == Init /\ [][NextDeep]_vars

\* A third set of runs starts from the file system that three earlier runs
\* leave: `-a /a`, `-a /b` and `-a /c` of an empty file on a new file system.
\* The root directory then has its two direct blocks and one free slot, so the
\* next entry fills it and a further one cannot be linked.
EmptyLocalFile == [exists |-> TRUE, bytes |-> <<>>]

FilledFS ==
    exfs2_add(
        init_fs(exfs2_add(
            init_fs(exfs2_add(init_fs(EmptyFS), <<"/", "a">>, EmptyLocalFile, 0).fs),
            <<"/", "b">>, EmptyLocalFile, 0).fs),
        <<"/", "c">>, EmptyLocalFile, 0).fs

InitFull ==
    /\ \E fs \in {FilledFS} :
           /\ inode_bitmap = fs.ibm
           /\ inode_table = fs.itab
           /\ data_bitmap = fs.dbm
           /\ data_blocks = fs.dblk
    /\ last = [op |-> "init", path |-> <<>>, src |-> <<>>, status |-> "ok",
               out |-> <<>>, before |-> Bitmaps(EmptyFS)]
    /\ steps = 0

FullPaths ==
    { <<"/", "a">>, <<"/", "d">>, <<"/", "e">>, <<"/", "e", "/", "f">> }

\* the local files of these runs: one that cannot be opened, an empty one,
\* one of one block and one of D + 1 blocks
FullFiles ==
    {[exists |-> FALSE, bytes |-> <<>>]} \cup
    {[exists |-> TRUE, bytes |-> Pattern(n)] :
        n \in {0, 1, BLOCK_SIZE * (MAX_DIRECT_BLOCKS + 1)}}

NextFull ==
    \/ \E path \in FullPaths, local_file \in FullFiles :
           \E oob \in OobWords(local_file) : Add(path, local_file, oob)
    \/ \E path \in FullPaths : Remove(path)
    \/ \E path \in FullPaths : Extract(path)

SpecFull == InitFull /\ [][NextFull]_vars

\* A fourth set of runs: paths written with and without a leading slash,
\* with repeated slashes and with trailing slashes; "" and "/" and "//"
SlashPaths ==
    { <<>>, <<"/">>, <<"/", "/">>,
      <<"/", "a">>, <<"a">>, <<"/", "/", "a", "/">>,
      <<"/", "a", "/", "b">>, <<"a", "/", "/", "b">>,
      <<"/", "/", "a", "/", "/", "/", "b", "/">> }

SlashFiles == {[exists |-> TRUE, bytes |-> Pattern(1)]}

NextSlash ==
    \/ \E path \in SlashPaths, local_file \in SlashFiles :
           \E oob \in OobWords(local_file) : Add(path, local_file, oob)
    \/ \E path \in SlashPaths : Remove(path)
    \/ \E path \in SlashPaths : Extract(path)

SpecSlash == Init /\ [][NextSlash]_vars

----------------------------------------------------------------------------
(* exfs2_add write by write: the segment files after every allocation and
   every write of one call, in the order of the code *)

\* add_entry_to_dir: the free slot filled (one write), or the new block
\* allocated, the entries saved in it, the directory inode written
add_entry_to_dir_writes(fs, dir_inode, dir_inode_num, name, child_inode_num) ==
    IF dir_inode.type # INODE_DIR THEN <<>>
    ELSE IF find_entry_in_dir(fs, dir_inode, name) # -1 THEN <<>>
    ELSE LET s == fill_free_slot(fs, dir_inode, name, child_inode_num, 0)
         IN IF s.found THEN <<s.fs>>
            ELSE IF dir_inode.num_direct >= MAX_DIRECT_BLOCKS THEN <<>>
            ELSE LET a == allocate_block(fs)
                     w == save_directory_entries(a.fs, a.id,
                              FreshEntries(name, child_inode_num))
                     d == [dir_inode EXCEPT
                              !.direct_blocks[dir_inode.num_direct + 1] = a.id,
                              !.num_direct = @ + 1,
                              !.size = @ + BLOCK_SIZE]
                 IN <<a.fs, w.fs, write_inode(w.fs, dir_inode_num, d).fs>>

\* a variant of the walk that links a new directory before it writes its inode
RECURSIVE add_walk_writes_link_first(_, _, _, _, _)
add_walk_writes_link_first(fs, parts, i, current_inode_num, current_inode) ==
    IF i >= Len(parts) - 1 THEN <<>>
    ELSE LET next_inode_num == find_entry_in_dir(fs, current_inode, parts[i + 1])
         IN IF next_inode_num = -1
            THEN LET a == allocate_inode(fs)
                     e == add_entry_to_dir(a.fs, current_inode, current_inode_num,
                                           parts[i + 1], a.id)
                     w == write_inode(e.fs, a.id, NewInode(INODE_DIR))
                 IN <<a.fs>>
                    \o add_entry_to_dir_writes(a.fs, current_inode,
                           current_inode_num, parts[i + 1], a.id)
                    \o <<w.fs>>
                    \o (IF w.rc # 0 \/ e.rc # 0 THEN <<>>
                        ELSE add_walk_writes_link_first(w.fs, parts, i + 1, a.id,
                                                        NewInode(INODE_DIR)))
            ELSE LET r == read_inode(fs, next_inode_num)
                 IN IF r.rc # 0 \/ r.inode.type # INODE_DIR THEN <<>>
                    ELSE add_walk_writes_link_first(fs, parts, i + 1,
                                                    next_inode_num, r.inode)

\* the walk: for a missing directory allocate_inode, write_inode, then
\* add_entry_to_dir in the parent
RECURSIVE add_walk_writes(_, _, _, _, _)
add_walk_writes(fs, parts, i, current_inode_num, current_inode) ==
    IF i >= Len(parts) - 1 THEN <<>>
    ELSE LET next_inode_num == find_entry_in_dir(fs, current_inode, parts[i + 1])
         IN IF next_inode_num = -1
            THEN LET a == allocate_inode(fs)
                     w == write_inode(a.fs, a.id, NewInode(INODE_DIR))
                     e == add_entry_to_dir(w.fs, current_inode, current_inode_num,
                                           parts[i + 1], a.id)
                 IN <<a.fs, w.fs>>
                    \o add_entry_to_dir_writes(w.fs, current_inode,
                           current_inode_num, parts[i + 1], a.id)
                    \o (IF w.rc # 0 \/ e.rc # 0 THEN <<>>
                        ELSE add_walk_writes(e.fs, parts, i + 1, a.id,
                                             NewInode(INODE_DIR)))
            ELSE LET r == read_inode(fs, next_inode_num)
                 IN IF r.rc # 0 \/ r.inode.type # INODE_DIR THEN <<>>
                    ELSE add_walk_writes(fs, parts, i + 1, next_inode_num, r.inode)

\* where the block goes (st: the loop state after the data block was
\* written): nothing on disk for a direct block; the indirect block
\* allocated or read, then written; the double-indirect block allocated or
\* read, the level 1 block, then the two blocks written
PlaceBlock_writes(st, oob) ==
    IF st.total_blocks < MAX_DIRECT_BLOCKS THEN <<>>
    ELSE IF st.total_blocks < MAX_DIRECT_BLOCKS + indirect_blocks_per_block
         THEN <<OpenIndirect(st).fs, PutIndirect(st).fs>>
    ELSE <<OpenDouble(st).fs, NewLevel1(OpenDouble(st), oob).fs, PutDouble(st, oob).fs>>

\* the copy loop: allocate_block, write_block of the data, then the place
RECURSIVE CopyLoop_writes(_, _, _, _)
CopyLoop_writes(st, src, k, oob) ==
    IF k >= NumChunks(src) THEN <<>>
    ELSE <<allocate_block(st.fs).fs, TakeDataBlock(st, Chunk(src, k)).fs>>
         \o PlaceBlock_writes(TakeDataBlock(st, Chunk(src, k)), oob)
         \o CopyLoop_writes(CopyBlock(st, Chunk(src, k), oob), src, k + 1, oob)

\* after the copy loop (c: its final state): write_inode, add_entry_to_dir
link_file_writes(w, filename, c) ==
    <<write_inode(c.fs, c.file_inode_num, c.file_inode).fs>>
    \o add_entry_to_dir_writes(
           write_inode(c.fs, c.file_inode_num, c.file_inode).fs,
           w.current_inode, w.current_inode_num, filename, c.file_inode_num)

\* after the walk (w: its result): allocate_inode, fopen, the copy loop, the
\* inode and the entry
add_target_writes(w, filename, local_file, oob) ==
    IF w.status # "ok" THEN <<>>
    ELSE IF find_entry_in_dir(w.fs, w.current_inode, filename) # -1 THEN <<>>
    ELSE <<allocate_inode(w.fs).fs>>
         \o (IF ~local_file.exists THEN <<>>
             ELSE CopyLoop_writes(CopyStart(allocate_inode(w.fs)),
                                  local_file.bytes, 0, oob)
                  \o link_file_writes(w, filename,
                         CopyLoop(CopyStart(allocate_inode(w.fs)),
                                  local_file.bytes, 0, oob)))

exfs2_add_writes(fs, exfs2_path, local_file, oob) ==
    IF Len(split_path(exfs2_path)) = 0 THEN <<>>
    ELSE IF read_inode(fs, ROOT_DIR_INODE).rc # 0 THEN <<>>
    ELSE add_walk_writes(fs, split_path(exfs2_path), 0, ROOT_DIR_INODE,
                         read_inode(fs, ROOT_DIR_INODE).inode)
         \o add_target_writes(
                add_walk(fs, split_path(exfs2_path), 0, ROOT_DIR_INODE,
                         read_inode(fs, ROOT_DIR_INODE).inode),
                split_path(exfs2_path)[Len(split_path(exfs2_path))],
                local_file, oob)

\* A fifth set of runs, in which an add is seen write by write: last holds
\* the call in progress (the segment files it started from, its arguments
\* and the number k of writes done).  No other command runs before it ends.
StepPaths == { <<"/", "a">>, <<"/", "b">>, <<"/", "a", "/", "b">> }

\* one that cannot be opened, one of one block, one of D + 1 blocks and one
\* of D + P + 1 blocks
StepFiles ==
    {[exists |-> FALSE, bytes |-> <<>>]} \cup
    {[exists |-> TRUE, bytes |-> Pattern(n)] :
        n \in {1, BLOCK_SIZE * (MAX_DIRECT_BLOCKS + 1),
                BLOCK_SIZE * (MAX_DIRECT_BLOCKS + indirect_blocks_per_block + 1)}}

Idle == last.op # "adding"

\* the writes of the add in progress
WritesOf(call) == exfs2_add_writes(call.start, call.path, call.file, 0)

AddBegin(path, local_file) ==
    /\ Idle
    /\ steps < MaxCommands
    /\ steps' = steps + 1
    /\ SetFS(init_fs(FS))
    /\ last' = [op |-> "adding", path |-> path, src |-> local_file.bytes,
                status |-> "running", out |-> <<>>, before |-> Bitmaps(FS),
                start |-> init_fs(FS), file |-> local_file, k |-> 0]

AddWrite ==
    /\ ~Idle
    /\ last.k < Len(WritesOf(last))
    /\ SetFS(WritesOf(last)[last.k + 1])
    /\ last' = [last EXCEPT !.k = @ + 1]
    /\ UNCHANGED steps

AddEnd ==
    /\ ~Idle
    /\ last.k = Len(WritesOf(last))
    /\ last' = [op |-> "add", path |-> last.path, src |-> last.src,
                status |-> exfs2_add(last.start, last.path, last.file, 0).status,
                out |-> <<>>, before |-> last.before]
    /\ UNCHANGED <<inode_bitmap, inode_table, data_bitmap, data_blocks, steps>>

RemoveIdle(path) ==
    /\ Idle
    /\ Remove(path)

NextSteps ==
    \/ \E path \in StepPaths, local_file \in StepFiles : AddBegin(path, local_file)
    \/ AddWrite
    \/ AddEnd
    \/ \E path \in StepPaths : RemoveIdle(path)

SpecSteps == Init /\ [][NextSteps]_vars

----------------------------------------------------------------------------
(* main: the command line and the exit status *)

\* exfs2_debug: the message it stops with.  It prints the directory or file
\* at every component and changes nothing; a path of no component prints the
\* root directory.
exfs2_debug(fs, exfs2_path) ==
    LET parts == split_path(exfs2_path)
        root == read_inode(fs, ROOT_DIR_INODE)
        w == lookup_walk(fs, parts, 0, Len(parts), ROOT_DIR_INODE, root.inode)
    IN IF root.rc # 0 THEN [status |-> "Failed to read root inode"]
       ELSE IF w.status = "Path not found"
            THEN [status |-> "Component not found"]
       ELSE [status |-> w.status]

\* init_fs when the host may refuse to create a segment file (io_ok = FALSE)
init_fs_rc(fs, io_ok) ==
    IF HasInodeSeg(fs, 0) THEN [rc |-> 0, fs |-> fs]
    ELSE IF ~io_ok THEN [rc |-> -1, fs |-> fs]
    ELSE [rc |-> 0, fs |-> init_fs(fs)]

\* a command-line word
Flag(c) == <<"-", c>>

\* the local files by name: "f" is a file of one block, any other name
\* cannot be opened
LocalFileNamed(name) ==
    IF name = <<"f">> THEN [exists |-> TRUE, bytes |-> Pattern(1)]
    ELSE [exists |-> FALSE, bytes |-> <<>>]

\* a variant of the usage exits that returns 0
usage_zero(fs) == [exit |-> 0, status |-> "Usage", fs |-> fs, out |-> <<>>]

\* the usage text, then return 1
usage(fs) == [exit |-> 1, status |-> "Usage", fs |-> fs, out |-> <<>>]

\* return 0 at the end of main, after the handler has returned with result r;
\* fs: the segment files then
returned(r, fs) ==
    [exit |-> 0, status |-> r.status, fs |-> fs, out |-> r.out]

\* the same after exfs2_add or exfs2_remove, which print no file contents
\* and leave r.fs in the segment files
handled(r) == returned(Silent(r), r.fs)

\* main after init_fs: argv[1..argc-1] are the words after the program name
dispatch(fs, argv) ==
    IF argv[1] = Flag("l") THEN returned([status |-> "ok", out |-> <<>>], fs)
    ELSE IF argv[1] = Flag("a")
         THEN IF Len(argv) + 1 # 5 \/ argv[3] # Flag("f") THEN usage(fs)
              ELSE handled(exfs2_add(fs, argv[2], LocalFileNamed(argv[4]), 0))
    ELSE IF argv[1] = Flag("r")
         THEN IF Len(argv) + 1 # 3 THEN usage(fs)
              ELSE handled(exfs2_remove(fs, argv[2]))
    ELSE IF argv[1] = Flag("e")
         THEN IF Len(argv) + 1 # 3 THEN usage(fs)
              ELSE returned(exfs2_extract(fs, argv[2]), fs)
    ELSE IF argv[1] = Flag("D")
         THEN IF Len(argv) + 1 # 3 THEN usage(fs)
              ELSE returned([status |-> exfs2_debug(fs, argv[2]).status,
                             out |-> <<>>], fs)
    ELSE [exit |-> 1, status |-> "Unknown option", fs |-> fs, out |-> <<>>]

main(fs, argv, io_ok) ==
    IF Len(argv) + 1 < 2 THEN usage(fs)
    ELSE IF init_fs_rc(fs, io_ok).rc # 0
         THEN [exit |-> 1, status |-> "Failed to initialize file system",
               fs |-> fs, out |-> <<>>]
    ELSE dispatch(init_fs_rc(fs, io_ok).fs, argv)

\* the command lines: every mode with the right words, with a word missing
\* and with a word too many, -a without -f, an unknown option, no word
MainPaths == { <<"/">>, <<"/", "a">>, <<"/", "a", "/", "b">> }

MainArgs ==
    { <<>>, <<Flag("l")>>, <<Flag("z")>>,
      <<Flag("r")>>, <<Flag("e")>>, <<Flag("D")>>, <<Flag("a")>> }
    \cup {<<Flag("l"), p>> : p \in MainPaths}
    \cup {<<Flag(c), p>> : c \in {"r", "e", "D", "a"}, p \in MainPaths}
    \cup {<<Flag(c), p, p>> : c \in {"r", "e", "D"}, p \in MainPaths}
    \cup {<<Flag("a"), p, Flag(c), <<n>>>> :
              p \in MainPaths, c \in {"f", "x"}, n \in {"f", "g"}}

\* before the first run there is no segment file
InitMain ==
    /\ inode_bitmap = EmptyFS.ibm
    /\ inode_table = EmptyFS.itab
    /\ data_bitmap = EmptyFS.dbm
    /\ data_blocks = EmptyFS.dblk
    /\ last = [op |-> "init", path |-> <<>>, src |-> <<>>, status |-> "ok",
               out |-> <<>>, before |-> Bitmaps(EmptyFS)]
    /\ steps = 0

\* one run of the program that ends as r says
Ran(argv, io_ok, r) ==
    /\ steps' = steps + 1
    /\ SetFS(r.fs)
    /\ last' = [op |-> "main", path |-> argv, src |-> <<>>,
                status |-> r.status, out |-> r.out, before |-> Bitmaps(FS),
                exit |-> r.exit, io_ok |-> io_ok]

Main(argv, io_ok) ==
    /\ steps < MaxCommands
    /\ Ran(argv, io_ok, main(FS, argv, io_ok))

NextMain == \E argv \in MainArgs, io_ok \in BOOLEAN : Main(argv, io_ok)

SpecMain == InitMain /\ [][NextMain]_vars

----------------------------------------------------------------------------
(* The vocabulary of the properties: the graph reachable from the root,     *)
(* read off the segment files without the program's lookup functions.       *)

InodeNums(fs) == 0..(Len(fs.itab) - 1)

BlockIds(fs) == 0..(Len(fs.dblk) - 1)

InodeBit(fs, n) ==
    /\ n \in InodeNums(fs)
    /\ (n % num_inodes) \in fs.ibm[(n \div num_inodes) + 1]

BlockBit(fs, b) ==
    /\ b \in BlockIds(fs)
    /\ (b % num_blocks) \in fs.dbm[(b \div num_blocks) + 1]

\* the entries array of block b, and its array of int
EntriesOf(fs, b) ==
    IF b \in BlockIds(fs) THEN AsEntries(BlockAt(fs, b))
    ELSE [j \in 1..DIR_ENTRIES_PER_BLOCK |-> FreeEntry]

WordsOf(fs, b) ==
    IF b \in BlockIds(fs) THEN AsPtrs(BlockAt(fs, b))
    ELSE Zeros(indirect_blocks_per_block)

NonZero(words) == {words[i] : i \in DOMAIN words} \ {0}

\* the places <<i, j>> (block i, entry j, from 1) of the live entries of a directory
LiveSlots(fs, inode) ==
    {s \in (1..inode.num_direct) \X (1..DIR_ENTRIES_PER_BLOCK) :
        EntriesOf(fs, inode.direct_blocks[s[1]])[s[2]].inode_num # -1}

EntryAt(fs, inode, s) == EntriesOf(fs, inode.direct_blocks[s[1]])[s[2]]

Children(fs, n) ==
    IF n \in InodeNums(fs) /\ InodeAt(fs, n).type = INODE_DIR
    THEN {EntryAt(fs, InodeAt(fs, n), s).inode_num : s \in LiveSlots(fs, InodeAt(fs, n))}
    ELSE {}

RECURSIVE Closure(_, _, _)
Closure(fs, todo, seen) ==
    IF todo = {} THEN seen
    ELSE LET n == CHOOSE x \in todo : TRUE
         IN Closure(fs, (todo \cup Children(fs, n)) \ (seen \cup {n}), seen \cup {n})

\* the root and every inode named by a live entry reachable from it
LiveInodes(fs) == Closure(fs, {ROOT_DIR_INODE}, {})

LiveDirs(fs) == {n \in LiveInodes(fs) \cap InodeNums(fs) : InodeAt(fs, n).type = INODE_DIR}

LiveFiles(fs) == {n \in LiveInodes(fs) \cap InodeNums(fs) : InodeAt(fs, n).type = INODE_FILE}

DirectOf(inode) == {inode.direct_blocks[i] : i \in 1..inode.num_direct}

\* the blocks under an indirect block of the given level, the block included
RECURSIVE TreeBlocks(_, _, _)
TreeBlocks(fs, b, level) ==
    IF b = -1 THEN {}
    ELSE {b} \cup
         IF level = 1 THEN NonZero(WordsOf(fs, b))
         ELSE UNION {TreeBlocks(fs, c, level - 1) : c \in NonZero(WordsOf(fs, b))}

\* the data blocks (leaves) under an indirect block of the given level
RECURSIVE TreeLeaves(_, _, _)
TreeLeaves(fs, b, level) ==
    IF b = -1 THEN {}
    ELSE IF level = 1 THEN NonZero(WordsOf(fs, b))
    ELSE UNION {TreeLeaves(fs, c, level - 1) : c \in NonZero(WordsOf(fs, b))}

\* every block id a live inode refers to
RefBlocks(fs, n) ==
    LET inode == InodeAt(fs, n)
    IN IF inode.type = INODE_DIR THEN DirectOf(inode)
       ELSE IF inode.type = INODE_FILE
            THEN DirectOf(inode)
                 \cup TreeBlocks(fs, inode.indirect_block, 1)
                 \cup TreeBlocks(fs, inode.double_indirect_block, 2)
                 \cup TreeBlocks(fs, inode.triple_indirect_block, 3)
       ELSE {}

LiveBlocks(fs) == UNION {RefBlocks(fs, n) : n \in LiveInodes(fs) \cap InodeNums(fs)}

\* the number of data-block references of a file inode (a slot counts once
\* per place it is listed)
RECURSIVE LeafCount(_, _, _)
LeafCount(fs, b, level) ==
    IF b = -1 THEN 0
    ELSE LET w == WordsOf(fs, b)
             nz == {i \in DOMAIN w : w[i] # 0}
             Sum[S \in SUBSET nz] ==
                 IF S = {} THEN 0
                 ELSE LET i == CHOOSE x \in S : TRUE
                      IN (IF level = 1 THEN 1 ELSE LeafCount(fs, w[i], level - 1))
                         + Sum[S \ {i}]
         IN Sum[nz]

DataRefs(fs, inode) ==
    inode.num_direct + LeafCount(fs, inode.indirect_block, 1)
    + LeafCount(fs, inode.double_indirect_block, 2)
    + LeafCount(fs, inode.triple_indirect_block, 3)

CeilDiv(a, b) == (a + b - 1) \div b

\* the inodes that the entries called name in directory d refer to
NamedIn(fs, d, name) ==
    IF d \in InodeNums(fs) /\ InodeAt(fs, d).type = INODE_DIR
    THEN {EntryAt(fs, InodeAt(fs, d), s).inode_num :
             s \in {t \in LiveSlots(fs, InodeAt(fs, d)) :
                       EntryAt(fs, InodeAt(fs, d), t).name = name}}
    ELSE {}

\* the inodes that the first k components of a path lead to from the root
RECURSIVE Reached(_, _, _)
Reached(fs, parts, k) ==
    IF k = 0 THEN {ROOT_DIR_INODE}
    ELSE UNION {NamedIn(fs, d, parts[k]) : d \in Reached(fs, parts, k - 1)}

\* the path has components and each of them is found
Resolves(fs, path) ==
    /\ split_path(path) # <<>>
    /\ Reached(fs, split_path(path), Len(split_path(path))) # {}

Target(fs, path) ==
    CHOOSE n \in Reached(fs, split_path(path), Len(split_path(path))) : TRUE

\* bits set now that were clear in the bitmaps b
NewInodeBits(fs, b) ==
    {n \in InodeNums(fs) :
        /\ InodeBit(fs, n)
        /\ ~(n \div num_inodes < Len(b.ibm) /\ (n % num_inodes) \in b.ibm[(n \div num_inodes) + 1])}

NewBlockBits(fs, b) ==
    {k \in BlockIds(fs) :
        /\ BlockBit(fs, k)
        /\ ~(k \div num_blocks < Len(b.dbm) /\ (k % num_blocks) \in b.dbm[(k \div num_blocks) + 1])}

\* the indirect blocks of a file: single, double, level-1, triple and below
IndirectBlocks(fs, inode) ==
    (TreeBlocks(fs, inode.indirect_block, 1) \ TreeLeaves(fs, inode.indirect_block, 1))
    \cup (TreeBlocks(fs, inode.double_indirect_block, 2)
              \ TreeLeaves(fs, inode.double_indirect_block, 2))
    \cup (TreeBlocks(fs, inode.triple_indirect_block, 3)
              \ TreeLeaves(fs, inode.triple_indirect_block, 3))

\* the directory that holds the final component of a path that resolves
ParentOf(fs, path) ==
    CHOOSE n \in Reached(fs, split_path(path), Len(split_path(path)) - 1) : TRUE

LastName(path) == split_path(path)[Len(split_path(path))]

\* the places of all the entries, live or free, of a directory inode
AllSlots(inode) == (1..inode.num_direct) \X (1..DIR_ENTRIES_PER_BLOCK)

\* a sequence without its k-th element
RemoveAt(seq, k) == SubSeq(seq, 1, k - 1) \o SubSeq(seq, k + 1, Len(seq))

\* in directory d, between f and g: the entries naming inode t became free
\* entries with a zeroed name, every other entry and the inode record of d
\* are the same
OnlyEntryCleared(f, g, d, t) ==
    /\ InodeAt(g, d) = InodeAt(f, d)
    /\ \A s \in AllSlots(InodeAt(f, d)) :
           IF EntryAt(f, InodeAt(f, d), s).inode_num = t
           THEN EntryAt(g, InodeAt(f, d), s) = FreeEntry
           ELSE EntryAt(g, InodeAt(f, d), s) = EntryAt(f, InodeAt(f, d), s)
    /\ Cardinality({s \in AllSlots(InodeAt(f, d)) :
                       EntryAt(f, InodeAt(f, d), s).inode_num = t}) = 1

FsUnchanged == UNCHANGED <<inode_bitmap, inode_table, data_bitmap, data_blocks>>

AddedOk == last.op = "add" /\ last.status = "added successfully"

----------------------------------------------------------------------------
(* Claims *)

\* C1: add-then-extract round trip: after a successful `-a p -f source`, `-e p`
\* writes exactly the bytes of the source, whatever number of blocks it has.
C1_RoundTrip ==
    AddedOk => exfs2_extract(FS, last.path) = [status |-> "ok", out |-> last.src]

\* C2: an inode's bitmap bit is set if and only if the inode is live (the root,
\* or named by a live directory entry reachable from the root).
C2_InodeBitIffLive ==
    \A n \in InodeNums(FS) : InodeBit(FS, n) <=> n \in LiveInodes(FS)

\* C3: every block id referenced by a live inode has its bit set in the
\* bitmap of the data segment that owns it.
C3_LiveBlocksAllocated ==
    \A b \in LiveBlocks(FS) : BlockBit(FS, b)

C3_Witness ==
    /\ AddedOk
    /\ \E n \in LiveFiles(FS) : InodeAt(FS, n).double_indirect_block # -1
    /\ \E n \in LiveDirs(FS) : InodeAt(FS, n).num_direct > 0

\* C4: every bit set in a data-segment bitmap belongs to a block in use by
\* the graph reachable from the root.
C4_AllocatedBlocksLive ==
    \A b \in BlockIds(FS) : BlockBit(FS, b) => b \in LiveBlocks(FS)

\* C5: in every live directory at most one live entry has a given name, and
\* every live entry names an inode whose bitmap bit is set.
C5_UniqueNamesNoDangling ==
    \A d \in LiveDirs(FS) :
        LET inode == InodeAt(FS, d)
        IN /\ \A s, t \in LiveSlots(FS, inode) :
                  EntryAt(FS, inode, s).name = EntryAt(FS, inode, t).name => s = t
           /\ \A s \in LiveSlots(FS, inode) :
                  InodeBit(FS, EntryAt(FS, inode, s).inode_num)

C5_Witness ==
    /\ last.op = "remove" /\ last.status = "Removed successfully"
    /\ \E d \in LiveDirs(FS) : Cardinality(LiveSlots(FS, InodeAt(FS, d))) = 1

\* C6: for every live file inode, the number of data blocks it references
\* equals ceil(size / BLOCK_SIZE), and the size of the file an add created is
\* the number of bytes of its source.
C6_BlockCountMatchesSize ==
    /\ \A f \in LiveFiles(FS) :
           DataRefs(FS, InodeAt(FS, f)) = CeilDiv(InodeAt(FS, f).size, BLOCK_SIZE)
    /\ AddedOk =>
           /\ Resolves(FS, last.path)
           /\ InodeAt(FS, Target(FS, last.path)).size = Len(last.src)

\* C7: for every directory inode, size = num_direct * BLOCK_SIZE and the
\* indirect, double-indirect and triple-indirect fields are -1.
C7_DirSize ==
    \A d \in InodeNums(FS) :
        InodeAt(FS, d).type = INODE_DIR =>
            /\ InodeAt(FS, d).size = InodeAt(FS, d).num_direct * BLOCK_SIZE
            /\ InodeAt(FS, d).indirect_block = -1
            /\ InodeAt(FS, d).double_indirect_block = -1
            /\ InodeAt(FS, d).triple_indirect_block = -1

C7_Witness ==
    /\ AddedOk
    /\ Cardinality({d \in LiveDirs(FS) : InodeAt(FS, d).num_direct = 1}) >= 2

\* the command just run removed the path that the command before it added
AddThenRemove ==
    /\ AddedOk
    /\ last'.op = "remove"
    /\ last'.path = last.path

C9_ExistsLeavesStateUnchanged ==
    [][(last'.op = "add" /\ Resolves(FS, last'.path)) =>
          (last'.status = "File already exists" /\ FsUnchanged)]_vars

\* an add was refused because its path names an existing directory
C9_Witness ==
    /\ last.op = "add" /\ last.status = "File already exists"
    /\ Resolves(FS, last.path)
    /\ InodeAt(FS, Target(FS, last.path)).type = INODE_DIR

\* C10: a remove of a path of which some component is not found prints a
\* diagnostic and changes no bitmap, inode record or block; so does a second
\* `-r p` right after a successful `-r p`.
C10_RemoveMissingLeavesStateUnchanged ==
    [][/\ (last'.op = "remove" /\ split_path(last'.path) # <<>>
              /\ ~Resolves(FS, last'.path))
          => (last'.status \in {"Path not found", "File not found"} /\ FsUnchanged)
       /\ (last.op = "remove" /\ last.status = "Removed successfully"
              /\ last'.op = "remove" /\ last'.path = last.path)
          => (last'.status = "File not found" /\ FsUnchanged)]_vars

\* a remove found nothing to remove after an earlier remove freed an inode
C10_Witness ==
    /\ last.op = "remove" /\ last.status = "File not found"
    /\ \E n \in InodeNums(FS) : ~InodeBit(FS, n) /\ InodeAt(FS, n).type # INODE_FREE
    /\ last.before = Bitmaps(FS)

\* the command being run removes a path that leads to an inode of type t
Removing(t) ==
    /\ last'.op = "remove"
    /\ Resolves(FS, last'.path)
    /\ InodeAt(FS, Target(FS, last'.path)).type = t

\* C11: removing a file clears the bits of its direct blocks, of its
\* single-indirect block and of the blocks listed there, and of its inode, and
\* clears its entry in the parent (inode_num = -1, name zeroed): the name is
\* no longer found, and -l prints what it printed before less that one line.
C11_RemoveFile ==
    [][Removing(INODE_FILE) =>
          LET t == Target(FS, last'.path)
              inode == InodeAt(FS, t)
          IN /\ last'.status = "Removed successfully"
             /\ \A b \in DirectOf(inode) \cup TreeBlocks(FS, inode.indirect_block, 1) :
                    ~BlockBit(FS', b)
             /\ ~InodeBit(FS', t)
             /\ OnlyEntryCleared(FS, FS', ParentOf(FS, last'.path), t)
             /\ ~Resolves(FS', last'.path)
             /\ exfs2_remove(FS', last'.path).status = "File not found"
             /\ \E k \in 1..Len(exfs2_list(FS)) :
                    /\ exfs2_list(FS)[k].name = LastName(last'.path)
                    /\ exfs2_list(FS') = RemoveAt(exfs2_list(FS), k)
      ]_vars

\* a file with a single-indirect block has been removed from a directory that
\* still lists another entry
C11_Witness ==
    /\ last.op = "remove" /\ last.status = "Removed successfully"
    /\ Len(exfs2_list(FS)) >= 2
    /\ \E n \in InodeNums(FS) :
           /\ ~InodeBit(FS, n)
           /\ InodeAt(FS, n).type = INODE_FILE
           /\ InodeAt(FS, n).num_direct = MAX_DIRECT_BLOCKS
           /\ InodeAt(FS, n).indirect_block # -1
           /\ ~BlockBit(FS, InodeAt(FS, n).indirect_block)

\* C12: removing a directory removes its subtree: the inode bit and the bits of
\* the direct blocks of the directory and of every descendant, at any depth,
\* are cleared, and in the parent exactly the entry naming the directory is
\* cleared while the sibling entries stay.
C12_RemoveDirectory ==
    [][Removing(INODE_DIR) =>
          LET t == Target(FS, last'.path)
          IN /\ last'.status = "Removed successfully"
             /\ \A n \in Closure(FS, {t}, {}) :
                    /\ ~InodeBit(FS', n)
                    /\ \A b \in DirectOf(InodeAt(FS, n)) : ~BlockBit(FS', b)
             /\ OnlyEntryCleared(FS, FS', ParentOf(FS, last'.path), t)
      ]_vars

\* a directory with directories and a file below it has been removed while a
\* sibling of it stays listed
C12_Witness ==
    /\ last.op = "remove" /\ last.status = "Removed successfully"
    /\ Len(exfs2_list(FS)) >= 2
    /\ Cardinality({n \in InodeNums(FS) :
                       ~InodeBit(FS, n) /\ InodeAt(FS, n).type = INODE_DIR}) >= 3
    /\ \E n \in InodeNums(FS) : ~InodeBit(FS, n) /\ InodeAt(FS, n).type = INODE_FILE

\* the number of leading components of a path, the final one left out, that
\* are found from the root
RECURSIVE ResolvedLen(_, _, _)
ResolvedLen(fs, parts, k) ==
    IF k >= Len(parts) - 1 THEN k
    ELSE IF Reached(fs, parts, k + 1) = {} THEN k
    ELSE ResolvedLen(fs, parts, k + 1)

\* the deepest directory of the path that exists
DeepestDir(fs, parts) ==
    CHOOSE n \in Reached(fs, parts, ResolvedLen(fs, parts, 0)) : TRUE

\* every slot of the existing blocks of the directory is live
NoFreeSlot(fs, d) == LiveSlots(fs, InodeAt(fs, d)) = AllSlots(InodeAt(fs, d))

AllInodeBits(fs) == {n \in InodeNums(fs) : InodeBit(fs, n)}

AllBlockBits(fs) == {b \in BlockIds(fs) : BlockBit(fs, b)}

\* the first command, on a new file system, added a one-block file below
\* three missing directories
FreshChainAdd ==
    /\ steps = 1
    /\ AddedOk
    /\ Len(split_path(last.path)) = 4
    /\ NumChunks(last.src) = 1

\* C13, as stated: on a fresh file system `-a /a/b/c/t` of a one-block file
\* allocates inodes 0..4 and 4 data blocks in total.
C13_FreshChainFourBlocks ==
    FreshChainAdd =>
        /\ AllInodeBits(FS) = 0..4
        /\ Cardinality(AllBlockBits(FS)) = 4

\* C13, amended: on a fresh file system `-a /a/b/c/t` of a one-block file
\* allocates inodes 0..4 and 5 data blocks: one for the file and one entries
\* block for each of root, a, b and c.  In general a successful add of a
\* one-block file allocates one inode and one data block for the file, one
\* inode and one data block for every missing intermediate directory, and one
\* more data block when the deepest existing directory has no free slot.
C13_ChainCost ==
    [][(last'.op = "add" /\ last'.status = "added successfully"
           /\ NumChunks(last'.src) = 1) =>
          LET parts == split_path(last'.path)
              missing == Len(parts) - 1 - ResolvedLen(FS, parts, 0)
              extra == IF NoFreeSlot(FS, DeepestDir(FS, parts)) THEN 1 ELSE 0
          IN /\ Cardinality(NewInodeBits(FS', Bitmaps(FS))) = missing + 1
             /\ Cardinality(NewBlockBits(FS', Bitmaps(FS))) = missing + 1 + extra
             /\ (steps = 0 /\ Len(parts) = 4) =>
                    /\ AllInodeBits(FS') = 0..4
                    /\ AllBlockBits(FS') = 0..4
      ]_vars

\* the chain has been added to a new file system: five inodes, five blocks
C13_Witness ==
    /\ FreshChainAdd
    /\ Cardinality(AllInodeBits(FS)) = 5
    /\ Cardinality(AllBlockBits(FS)) = 5
    /\ Len(exfs2_list(FS)) = 5

\* C14: the root directory is inode 0 and is created once: bit 0 of inode
\* segment 0 is set and inode 0 is a directory in every state, init_fs on the
\* existing file system changes nothing, allocate_inode does not return 0, and
\* a remove of "/" is rejected as invalid.
C14_RootInode ==
    /\ InodeBit(FS, ROOT_DIR_INODE)
    /\ InodeAt(FS, ROOT_DIR_INODE).type = INODE_DIR
    /\ init_fs(FS) = FS
    /\ allocate_inode(FS).id # ROOT_DIR_INODE
    /\ (last.op = "remove" /\ split_path(last.path) = <<>>)
           => (last.status = "Invalid path" /\ last.before = Bitmaps(FS))

\* `-r /` has been run on a file system that holds more than the root
C14_Witness ==
    /\ last.op = "remove" /\ last.path = <<"/">>
    /\ last.status = "Invalid path"
    /\ InodeAt(FS, ROOT_DIR_INODE).num_direct > 0
    /\ Cardinality(AllInodeBits(FS)) >= 2

\* the inode of the file that the add just run created
AddedInode == InodeAt(FS, Target(FS, last.path))

\* the number of blocks of the source that fall in the double-indirect range
DoubleRangeBlocks(src) ==
    IF NumChunks(src) <= MAX_DIRECT_BLOCKS + indirect_blocks_per_block THEN 0
    ELSE NumChunks(src) - MAX_DIRECT_BLOCKS - indirect_blocks_per_block

\* C15: a file with n data blocks in the double-indirect range uses exactly
\* ceil(n / P) level-1 blocks (a new one only when the current one is full or
\* absent), and the debug summary reports n as the double-indirect count.
C15_Level1BlocksFilled ==
    (AddedOk /\ Resolves(FS, last.path)
        /\ DoubleRangeBlocks(last.src)
               <= indirect_blocks_per_block * indirect_blocks_per_block) =>
        /\ debug_double_indirect(FS, AddedInode).level1_count
               = CeilDiv(DoubleRangeBlocks(last.src), indirect_blocks_per_block)
        /\ debug_double_indirect(FS, AddedInode).double_indirect_count
               = DoubleRangeBlocks(last.src)

\* the block that holds logical block L of a file, looked up where the layout
\* rule for the double-indirect range puts it (0: the slot is empty)
DoubleSlot(fs, inode, L) ==
    LET k == L - MAX_DIRECT_BLOCKS - indirect_blocks_per_block
        level1 == WordsOf(fs, inode.double_indirect_block)
                      [(k \div indirect_blocks_per_block) + 1]
    IN IF inode.double_indirect_block = -1 \/ level1 = 0 THEN 0
       ELSE WordsOf(fs, level1)[(k % indirect_blocks_per_block) + 1]

\* C16: every logical block L of an added file with D + P <= L < D + P + P * P
\* is stored at slot floor((L - D - P) / P) of the double-indirect block, then
\* slot (L - D - P) mod P of the level-1 block referenced there.
C16_DoubleIndirectLayout ==
    (AddedOk /\ Resolves(FS, last.path)) =>
        \A L \in 0..(NumChunks(last.src) - 1) :
            (/\ L >= MAX_DIRECT_BLOCKS + indirect_blocks_per_block
             /\ L < MAX_DIRECT_BLOCKS + indirect_blocks_per_block
                       + indirect_blocks_per_block * indirect_blocks_per_block) =>
                /\ DoubleSlot(FS, AddedInode, L) # 0
                /\ AsBytes(BlockAt(FS, DoubleSlot(FS, AddedInode, L)))
                       = Pad(Chunk(last.src, L))

\* C17: a file of more than D + P + P * P blocks is stored through the
\* triple-indirect block and can be extracted.
C17_TripleIndirectWritten ==
    (AddedOk /\ NumChunks(last.src) > MAX_DIRECT_BLOCKS + indirect_blocks_per_block
                     + indirect_blocks_per_block * indirect_blocks_per_block) =>
        /\ Resolves(FS, last.path)
        /\ AddedInode.triple_indirect_block # -1
        /\ exfs2_extract(FS, last.path).status = "ok"
        /\ exfs2_extract(FS, last.path).out = last.src

\* C18: the single-indirect block is allocated lazily, exactly when block D + 1
\* is appended: an added file of n <= D blocks has num_direct = n and
\* indirect_block = -1 (D blocks fill every direct slot), an added file of more
\* than D blocks has an indirect block, and one of D + 1 blocks has exactly one
\* indirect block with exactly one non-zero entry.
C18_LazyIndirect ==
    (AddedOk /\ Resolves(FS, last.path)) =>
        /\ NumChunks(last.src) <= MAX_DIRECT_BLOCKS =>
               /\ AddedInode.num_direct = NumChunks(last.src)
               /\ AddedInode.indirect_block = -1
               /\ IndirectBlocks(FS, AddedInode) = {}
        /\ NumChunks(last.src) > MAX_DIRECT_BLOCKS =>
               /\ AddedInode.num_direct = MAX_DIRECT_BLOCKS
               /\ AddedInode.indirect_block # -1
        /\ NumChunks(last.src) = MAX_DIRECT_BLOCKS + 1 =>
               /\ IndirectBlocks(FS, AddedInode) = {AddedInode.indirect_block}
               /\ AddedInode.indirect_block \in NewBlockBits(FS, last.before)
               /\ count_nonzero(WordsOf(FS, AddedInode.indirect_block)) = 1
               /\ AsBytes(BlockAt(FS, WordsOf(FS, AddedInode.indirect_block)[1]))
                      = Pad(Chunk(last.src, MAX_DIRECT_BLOCKS))

\* a file of D + 1 blocks was just added next to a live file of exactly D
\* blocks: the first has one indirect block with one entry, the second none
C18_Witness ==
    /\ AddedOk /\ Resolves(FS, last.path)
    /\ NumChunks(last.src) = MAX_DIRECT_BLOCKS + 1
    /\ AddedInode.indirect_block # -1
    /\ count_nonzero(WordsOf(FS, AddedInode.indirect_block)) = 1
    /\ \E n \in LiveFiles(FS) :
           /\ InodeAt(FS, n).size = BLOCK_SIZE * MAX_DIRECT_BLOCKS
           /\ InodeAt(FS, n).num_direct = MAX_DIRECT_BLOCKS
           /\ InodeAt(FS, n).indirect_block = -1

\* C19: a successful add of a 0-byte file links a file inode with
\* num_direct = 0, size = 0 and the three indirect fields -1; the only blocks
\* the add allocates are entries blocks of directories (one per missing
\* directory, one more when the deepest existing directory has no free slot);
\* extracting the file emits no bytes.
C19_EmptyFile ==
    [][(last'.op = "add" /\ last'.status = "added successfully"
           /\ last'.src = <<>>) =>
          LET parts == split_path(last'.path)
              missing == Len(parts) - 1 - ResolvedLen(FS, parts, 0)
              extra == IF NoFreeSlot(FS, DeepestDir(FS, parts)) THEN 1 ELSE 0
          IN /\ Resolves(FS', last'.path)
             /\ InodeAt(FS', Target(FS', last'.path)).type = INODE_FILE
             /\ InodeAt(FS', Target(FS', last'.path)).num_direct = 0
             /\ InodeAt(FS', Target(FS', last'.path)).size = 0
             /\ InodeAt(FS', Target(FS', last'.path)).indirect_block = -1
             /\ InodeAt(FS', Target(FS', last'.path)).double_indirect_block = -1
             /\ InodeAt(FS', Target(FS', last'.path)).triple_indirect_block = -1
             /\ Target(FS', last'.path) \in NewInodeBits(FS', Bitmaps(FS))
             /\ Cardinality(NewBlockBits(FS', Bitmaps(FS))) = missing + extra
             /\ NewBlockBits(FS', Bitmaps(FS)) \subseteq
                    UNION {DirectOf(InodeAt(FS', d)) : d \in LiveDirs(FS')}
             /\ exfs2_extract(FS', last'.path).status = "ok"
             /\ exfs2_extract(FS', last'.path).out = <<>>
      ]_vars

\* a 0-byte file has been added into a directory that had a free slot: the
\* add set one inode bit and no block bit, and the file is listed
C19_Witness ==
    /\ AddedOk /\ last.src = <<>> /\ steps > 1
    /\ Resolves(FS, last.path)
    /\ AddedInode.type = INODE_FILE /\ AddedInode.size = 0
    /\ NewBlockBits(FS, last.before) = {}
    /\ Cardinality(NewInodeBits(FS, last.before)) = 1
    /\ exfs2_extract(FS, last.path).status = "ok"

\* the command added an entry to directory d
EntryAdded(d) ==
    Cardinality(LiveSlots(FS', InodeAt(FS', d)))
        > Cardinality(LiveSlots(FS, InodeAt(FS, d)))

\* a directory gets a new direct block exactly when an entry is added to it
\* while every slot of its existing blocks is live; a directory made by the
\* command has a block exactly when it got an entry
DirGrowthRule ==
    /\ \A d \in LiveDirs(FS) \cap LiveDirs(FS') :
           /\ InodeAt(FS', d).num_direct =
                  InodeAt(FS, d).num_direct
                  + (IF EntryAdded(d) /\ NoFreeSlot(FS, d) THEN 1 ELSE 0)
           /\ Cardinality(LiveSlots(FS', InodeAt(FS', d)))
                  <= DIR_ENTRIES_PER_BLOCK * InodeAt(FS', d).num_direct
    /\ \A d \in LiveDirs(FS') \ LiveDirs(FS) :
           InodeAt(FS', d).num_direct =
               (IF LiveSlots(FS', InodeAt(FS', d)) # {} THEN 1 ELSE 0)

\* C20, as stated: a directory block holds floor(4096 / sizeof(entry)) entries,
\* the first 255 entries fit in one block and the 256th allocates a new direct
\* block, which happens exactly when an entry is added while every slot of
\* the existing blocks is live.
C20_NewBlockAt256th ==
    [][/\ entries_per_block(BLOCK_SIZE_unscaled, sizeof_dir_entry_t) = 255
       /\ DirGrowthRule]_vars

\* C20, amended: a directory block holds floor(4096 / 260) = 15 entries, so
\* the first 15 entries fit in one block and the 16th allocates a new direct
\* block; a new direct block is allocated exactly when an entry is added
\* while every slot of the existing blocks is live.
C20_NewBlockAt16th ==
    [][/\ entries_per_block(BLOCK_SIZE_unscaled, sizeof_dir_entry_t) = 15
       /\ DirGrowthRule]_vars

\* an add has just put entry DIR_ENTRIES_PER_BLOCK + 1 into the root
\* directory, in slot 0 of a second block that the add allocated
C20_Witness ==
    /\ AddedOk
    /\ InodeAt(FS, ROOT_DIR_INODE).num_direct = 2
    /\ InodeAt(FS, ROOT_DIR_INODE).direct_blocks[2] \in NewBlockBits(FS, last.before)
    /\ Cardinality(LiveSlots(FS, InodeAt(FS, ROOT_DIR_INODE)))
           = DIR_ENTRIES_PER_BLOCK + 1
    /\ EntryAt(FS, InodeAt(FS, ROOT_DIR_INODE), <<2, 1>>).inode_num
           = Target(FS, last.path)

\* the command was an add that stopped with the given message
AddFailed(msg) == last'.op = "add" /\ last'.status = msg

\* the directories of the path that the add had to create
MissingDirs(fs, parts) == Len(parts) - 1 - ResolvedLen(fs, parts, 0)

\* the entries blocks the walk of an add allocates for `missing` new
\* directories: one in the deepest existing directory when it has no free
\* slot, and one in every new directory but the last
WalkBlocks(fs, parts) ==
    IF MissingDirs(fs, parts) = 0 THEN 0
    ELSE (IF NoFreeSlot(fs, DeepestDir(fs, parts)) THEN 1 ELSE 0)
         + MissingDirs(fs, parts) - 1

\* C21: a failed add is not rolled back.  No inode bit, block bit or link
\* that existed before is lost.  When the local file cannot be opened, the
\* missing directories have been created and are reachable from the root,
\* and the bit of the file's inode is set although nothing refers to it.
\* When the entry of the file cannot be linked, the bit of its inode and the
\* bits of the blocks written for it stay set.  When the entry of a new
\* directory cannot be linked, the bit of its inode stays set.
C21_NoRollback ==
    [][/\ (AddFailed("Failed to open local file")
            \/ AddFailed("Failed to add file entry")
            \/ AddFailed("Failed to add new directory entry")) =>
              /\ AllInodeBits(FS) \subseteq AllInodeBits(FS')
              /\ AllBlockBits(FS) \subseteq AllBlockBits(FS')
              /\ LiveInodes(FS) \subseteq LiveInodes(FS')
              /\ ~Resolves(FS', last'.path)
       /\ AddFailed("Failed to open local file") =>
              /\ Reached(FS', split_path(last'.path),
                         Len(split_path(last'.path)) - 1) \subseteq LiveDirs(FS')
              /\ Reached(FS', split_path(last'.path),
                         Len(split_path(last'.path)) - 1) # {}
              /\ Cardinality(NewInodeBits(FS', Bitmaps(FS)))
                     = MissingDirs(FS, split_path(last'.path)) + 1
              /\ Cardinality(NewInodeBits(FS', Bitmaps(FS)) \cap LiveDirs(FS'))
                     = MissingDirs(FS, split_path(last'.path))
              /\ Cardinality(NewBlockBits(FS', Bitmaps(FS)))
                     = WalkBlocks(FS, split_path(last'.path))
       /\ AddFailed("Failed to add file entry") =>
              /\ Cardinality(NewInodeBits(FS', Bitmaps(FS))) = 1
              /\ NewInodeBits(FS', Bitmaps(FS)) \cap LiveInodes(FS') = {}
              /\ Cardinality(NewBlockBits(FS', Bitmaps(FS)))
                     = NumChunks(last'.src)
                       + (IF NumChunks(last'.src) > MAX_DIRECT_BLOCKS THEN 1 ELSE 0)
              /\ NewBlockBits(FS', Bitmaps(FS)) \cap LiveBlocks(FS') = {}
       /\ AddFailed("Failed to add new directory entry") =>
              /\ Cardinality(NewInodeBits(FS', Bitmaps(FS))) = 1
              /\ NewInodeBits(FS', Bitmaps(FS)) \cap LiveInodes(FS') = {}
              /\ \A n \in NewInodeBits(FS', Bitmaps(FS)) :
                     InodeAt(FS', n).type = INODE_DIR
              /\ NewBlockBits(FS', Bitmaps(FS)) = {}
      ]_vars

\* an add of /e/f stopped at the local file: directory e is linked in the
\* root and empty, and a second new inode bit belongs to no live inode
C21_Witness ==
    /\ last.op = "add" /\ last.status = "Failed to open local file"
    /\ Len(split_path(last.path)) = 2
    /\ Reached(FS, split_path(last.path), 1) # {}
    /\ Reached(FS, split_path(last.path), 1) \subseteq NewInodeBits(FS, last.before)
    /\ Cardinality(NewInodeBits(FS, last.before)) = 2
    /\ NewInodeBits(FS, last.before) \ LiveInodes(FS) # {}

\* the words after the program name are not a command: no mode, an unknown
\* option, -a without exactly `path -f file`, -r, -e or -D without exactly
\* one path
Malformed(argv) ==
    \/ Len(argv) = 0
    \/ /\ Len(argv) > 0
       /\ \/ argv[1] \notin {Flag("l"), Flag("a"), Flag("r"), Flag("e"), Flag("D")}
          \/ argv[1] = Flag("a") /\ Len(argv) # 4
          \/ argv[1] = Flag("a") /\ Len(argv) = 4 /\ argv[3] # Flag("f")
          \/ argv[1] \in {Flag("r"), Flag("e"), Flag("D")} /\ Len(argv) # 2

\* the run had to create the segment files and the host refused
InitFailed ==
    /\ Len(last.path) > 0
    /\ Len(last.before.ibm) = 0
    /\ ~last.io_ok

\* the diagnostics of add, remove, extract and debug
OperationalFailures ==
    { "Invalid path", "Path not found", "Component not found", "File not found",
      "File already exists", "is not a directory", "Not a regular file",
      "Failed to open local file", "Failed to add file entry",
      "Failed to add new directory entry" }

RECURSIVE Squeeze(_, _)
Squeeze(path, i) ==
    IF i > Len(path) THEN <<>>
    ELSE IF path[i] = "/"
            /\ (\/ \A j \in 1..i : path[j] = "/"
                \/ i = Len(path)
                \/ path[i + 1] = "/")
         THEN Squeeze(path, i + 1)
    ELSE <<path[i]>> \o Squeeze(path, i + 1)

\* the two paths differ only in leading, repeated and trailing slashes
SameButSlashes(p, q) == Squeeze(p, 1) = Squeeze(q, 1)

\* C23: two paths that differ only in a leading slash, repeated slashes and
\* trailing slashes have the same components, and add, remove and extract do
\* the same with both in every state; "//a///b/" has the components a, b;
\* the empty path and "/" have no component.
C23_SlashesIgnored ==
    /\ \A p, q \in SlashPaths :
           SameButSlashes(p, q) =>
               /\ split_path(p) = split_path(q)
               /\ Reached(FS, split_path(p), Len(split_path(p)))
                      = Reached(FS, split_path(q), Len(split_path(q)))
               /\ \A f \in SlashFiles : exfs2_add(FS, p, f, 0) = exfs2_add(FS, q, f, 0)
               /\ exfs2_remove(FS, p) = exfs2_remove(FS, q)
               /\ exfs2_extract(FS, p) = exfs2_extract(FS, q)
    /\ split_path(<<"/", "/", "a", "/", "/", "/", "b", "/">>) = << <<"a">>, <<"b">> >>
    /\ split_path(<<>>) = <<>>
    /\ split_path(<<"/">>) = <<>>

\* a file added as "//a///b/" is the file that "/a/b" names and extracts
C23_Witness ==
    /\ AddedOk
    /\ last.path = <<"/", "/", "a", "/", "/", "/", "b", "/">>
    /\ Resolves(FS, <<"/", "a", "/", "b">>)
    /\ Target(FS, <<"/", "a", "/", "b">>) = Target(FS, last.path)
    /\ exfs2_extract(FS, <<"/", "a", "/", "b">>).status = "ok"
    /\ exfs2_extract(FS, <<"/", "a", "/", "b">>).out = last.src

\* the data-block references of the live files of a set, added up
RECURSIVE SumDataRefs(_, _)
SumDataRefs(fs, S) ==
    IF S = {} THEN 0
    ELSE LET n == CHOOSE x \in S : TRUE
         IN DataRefs(fs, InodeAt(fs, n)) + SumDataRefs(fs, S \ {n})

\* the indirect blocks of every live file
LiveIndirectBlocks(fs) ==
    UNION {IndirectBlocks(fs, InodeAt(fs, n)) : n \in LiveFiles(fs)}

\* C24: in every state reached by add and remove commands, the data-block
\* references of all live file inodes add up to the number of set bits of
\* the data-segment bitmaps minus the bits of the live indirect blocks
\* (single, double, level-1, triple).
C24_DataRefsMatchBitmap ==
    SumDataRefs(FS, LiveFiles(FS))
        = Cardinality(AllBlockBits(FS)) - Cardinality(LiveIndirectBlocks(FS))

\* bit n of the bitmaps bm of segments of `per` records each
BitOf(bm, per, n) ==
    /\ n \div per < Len(bm)
    /\ (n % per) \in bm[(n \div per) + 1]

\* the smallest global id whose bit is clear; the segments that do not exist
\* yet have every bit clear
LowestFree(bm, per) == Min({n \in 0..(Len(bm) * per) : ~BitOf(bm, per, n)})

\* the bitmaps b are the bitmaps a with bit id set and no other change
OnlyBitSet(a, b, per, id) ==
    \A n \in 0..((Len(a) + Len(b)) * per) :
        BitOf(b, per, n) <=> (BitOf(a, per, n) \/ n = id)

\* C25: allocate_inode and allocate_block are first-fit: in every state each
\* returns the smallest global id whose bit is clear, sets that bit and no
\* other; an add that creates no directory gives the file the smallest free
\* inode id, so an id freed by a remove is handed out next when it is the
\* lowest free one.
C25_FirstFit ==
    [][/\ allocate_inode(FS').id = LowestFree(FS'.ibm, num_inodes)
       /\ OnlyBitSet(FS'.ibm, allocate_inode(FS').fs.ibm, num_inodes,
                     allocate_inode(FS').id)
       /\ allocate_inode(FS').fs.dbm = FS'.dbm
       /\ allocate_block(FS').id = LowestFree(FS'.dbm, num_blocks)
       /\ OnlyBitSet(FS'.dbm, allocate_block(FS').fs.dbm, num_blocks,
                     allocate_block(FS').id)
       /\ allocate_block(FS').fs.ibm = FS'.ibm
       /\ (last'.op = "add" /\ last'.status = "added successfully"
              /\ MissingDirs(FS, split_path(last'.path)) = 0) =>
             /\ Target(FS', last'.path) = LowestFree(FS.ibm, num_inodes)
             /\ NumChunks(last'.src) > 0 =>
                    InodeAt(FS', Target(FS', last'.path)).direct_blocks[1]
                        = LowestFree(FS.dbm, num_blocks)
      ]_vars

\* an add has just been given the inode id that an earlier remove freed,
\* below ids that are still allocated
C25_Witness ==
    /\ AddedOk
    /\ NewInodeBits(FS, last.before) = {Target(FS, last.path)}
    /\ Target(FS, last.path) = 1
    /\ \A n \in 2..3 : InodeBit(FS, n) /\ BitOf(last.before.ibm, num_inodes, n)

\* every bit of the existing segments is set
AllFull(bm, per) == \A n \in 0..(Len(bm) * per - 1) : BitOf(bm, per, n)

\* C26: allocate_inode and allocate_block return a valid id, never -1, in
\* every state; when every existing segment of the kind is full, the next
\* segment is created zero-filled and its slot 0 is returned; an allocation
\* deletes, shrinks or re-zeroes no existing segment.
C26_AllocationExtends ==
    /\ allocate_inode(FS).id >= 0
    /\ allocate_block(FS).id >= 0
    /\ InodeBit(allocate_inode(FS).fs, allocate_inode(FS).id)
    /\ BlockBit(allocate_block(FS).fs, allocate_block(FS).id)
    /\ SubSeq(allocate_inode(FS).fs.itab, 1, Len(FS.itab)) = FS.itab
    /\ SubSeq(allocate_block(FS).fs.dblk, 1, Len(FS.dblk)) = FS.dblk
    /\ allocate_inode(FS).fs.dblk = FS.dblk
    /\ allocate_block(FS).fs.itab = FS.itab
    /\ \A k \in 1..Len(FS.ibm) : FS.ibm[k] \subseteq allocate_inode(FS).fs.ibm[k]
    /\ \A k \in 1..Len(FS.dbm) : FS.dbm[k] \subseteq allocate_block(FS).fs.dbm[k]
    /\ AllFull(FS.ibm, num_inodes) =>
           /\ allocate_inode(FS).id = Len(FS.ibm) * num_inodes
           /\ allocate_inode(FS).fs.ibm = Append(FS.ibm, {0})
           /\ allocate_inode(FS).fs.itab
                  = FS.itab \o [i \in 1..num_inodes |-> ZeroInode]
    /\ ~AllFull(FS.ibm, num_inodes) =>
           Len(allocate_inode(FS).fs.ibm) = Len(FS.ibm)
    /\ AllFull(FS.dbm, num_blocks) =>
           /\ allocate_block(FS).id = Len(FS.dbm) * num_blocks
           /\ allocate_block(FS).fs.dbm = Append(FS.dbm, {0})
           /\ allocate_block(FS).fs.dblk
                  = FS.dblk \o [i \in 1..num_blocks |-> ZeroBlock]
    /\ ~AllFull(FS.dbm, num_blocks) =>
           Len(allocate_block(FS).fs.dbm) = Len(FS.dbm)

\* an add has just created a second data segment: its first block belongs to
\* the file and the blocks of segment 0 are all allocated
C26_Witness ==
    /\ AddedOk
    /\ Len(last.before.dbm) = 1
    /\ Len(FS.dbm) = 2
    /\ FS.dbm[1] = 0..(num_blocks - 1)
    /\ num_blocks \in RefBlocks(FS, Target(FS, last.path))

\* the free slots of a directory, and the first of them: lowest block, then
\* lowest index
FreeSlots(fs, inode) == AllSlots(inode) \ LiveSlots(fs, inode)

FirstFreeSlot(fs, inode) ==
    CHOOSE s \in FreeSlots(fs, inode) :
        \A t \in FreeSlots(fs, inode) :
            s[1] < t[1] \/ (s[1] = t[1] /\ s[2] <= t[2])

\* a name that no command uses, and the inode number a caller would link
\* under it: the next one allocate_inode hands out
ProbeName == <<"z">>
ProbeChild(fs) == allocate_inode(fs).id

\* add_entry_to_dir on live directory d of fs filled its first free slot and
\* changed nothing else
ReusesFirstFreeSlot(fs, d, name, child) ==
    LET dir == InodeAt(fs, d)
        r == add_entry_to_dir(fs, dir, d, name, child)
        s == FirstFreeSlot(fs, dir)
    IN /\ r.rc = 0
       /\ r.dir_inode = dir
       /\ r.fs.ibm = fs.ibm /\ r.fs.itab = fs.itab /\ r.fs.dbm = fs.dbm
       /\ EntryAt(r.fs, dir, s) = [name |-> name, inode_num |-> child]
       /\ \A t \in AllSlots(dir) \ {s} : EntryAt(r.fs, dir, t) = EntryAt(fs, dir, t)
       /\ \A b \in BlockIds(fs) \ {dir.direct_blocks[s[1]]} :
              BlockAt(r.fs, b) = BlockAt(fs, b)

\* add_entry_to_dir on live directory d of fs, which has no free slot and
\* fewer than MAX_DIRECT_BLOCKS blocks, allocated one block for the entry
GrowsByOneBlock(fs, d, name, child) ==
    LET dir == InodeAt(fs, d)
        r == add_entry_to_dir(fs, dir, d, name, child)
    IN /\ r.rc = 0
       /\ r.dir_inode.num_direct = dir.num_direct + 1
       /\ r.dir_inode.size = dir.size + BLOCK_SIZE
       /\ InodeAt(r.fs, d) = r.dir_inode
       /\ Cardinality(NewBlockBits(r.fs, Bitmaps(fs))) = 1
       /\ r.dir_inode.direct_blocks[dir.num_direct + 1] \in NewBlockBits(r.fs, Bitmaps(fs))
       /\ EntryAt(r.fs, r.dir_inode, <<dir.num_direct + 1, 1>>)
              = [name |-> name, inode_num |-> child]

\* C27: add_entry_to_dir reuses free slots before it grows the directory.  In
\* every state and for every live directory with a free slot, the new entry
\* goes into the first free slot (lowest block, lowest index), no block is
\* allocated and the directory inode is unchanged; a block is allocated only
\* when the directory has no free slot.  An add into an existing directory
\* with a free slot puts the entry of the file into that slot.
C27_ReuseFreeSlot ==
    [][/\ \A d \in LiveDirs(FS) :
              /\ FreeSlots(FS, InodeAt(FS, d)) # {} =>
                     ReusesFirstFreeSlot(FS, d, ProbeName, ProbeChild(FS))
              /\ (FreeSlots(FS, InodeAt(FS, d)) = {}
                     /\ InodeAt(FS, d).num_direct < MAX_DIRECT_BLOCKS) =>
                     GrowsByOneBlock(FS, d, ProbeName, ProbeChild(FS))
       /\ (last'.op = "add" /\ last'.status = "added successfully"
              /\ MissingDirs(FS, split_path(last'.path)) = 0
              /\ ~NoFreeSlot(FS, DeepestDir(FS, split_path(last'.path)))) =>
             /\ InodeAt(FS', DeepestDir(FS, split_path(last'.path)))
                    = InodeAt(FS, DeepestDir(FS, split_path(last'.path)))
             /\ EntryAt(FS', InodeAt(FS, DeepestDir(FS, split_path(last'.path))),
                        FirstFreeSlot(FS, InodeAt(FS,
                            DeepestDir(FS, split_path(last'.path))))).inode_num
                    = Target(FS', last'.path)
      ]_vars

\* the root directory had free slots in both blocks and an add has just put
\* its entry into the first slot of the first block, leaving the other free
C27_Witness ==
    /\ AddedOk
    /\ InodeAt(FS, ROOT_DIR_INODE).num_direct = 2
    /\ EntryAt(FS, InodeAt(FS, ROOT_DIR_INODE), <<1, 1>>).inode_num
           = Target(FS, last.path)
    /\ Target(FS, last.path) \in NewInodeBits(FS, last.before)
    /\ EntryAt(FS, InodeAt(FS, ROOT_DIR_INODE), <<2, 2>>).inode_num = -1
    /\ InodeAt(FS, ROOT_DIR_INODE).direct_blocks[2] \notin NewBlockBits(FS, last.before)

\* add_entry_to_dir on inode n of fs failed and changed nothing
FailsUnchanged(fs, n, name, child) ==
    add_entry_to_dir(fs, InodeAt(fs, n), n, name, child)
        = [rc |-> -1, fs |-> fs, dir_inode |-> InodeAt(fs, n)]

\* the names of the live entries of a directory
NamesIn(fs, d) ==
    {EntryAt(fs, InodeAt(fs, d), s).name : s \in LiveSlots(fs, InodeAt(fs, d))}

\* directory d has MAX_DIRECT_BLOCKS blocks and no free slot
DirFull(fs, d) ==
    /\ InodeAt(fs, d).num_direct = MAX_DIRECT_BLOCKS
    /\ NoFreeSlot(fs, d)

\* C28: in every state add_entry_to_dir fails, allocates no block and changes
\* neither the inode nor any block when the directory has MAX_DIRECT_BLOCKS
\* direct blocks and no free slot, when the inode is not a directory, and
\* when the name is already present; an add whose entry cannot be linked
\* leaves the directory and its blocks as they were.
C28_AddEntryFailsUnchanged ==
    [][/\ \A d \in LiveDirs(FS) :
              /\ DirFull(FS, d) => FailsUnchanged(FS, d, ProbeName, ProbeChild(FS))
              /\ \A name \in NamesIn(FS, d) :
                     FailsUnchanged(FS, d, name, ProbeChild(FS))
       /\ \A n \in LiveFiles(FS) :
              FailsUnchanged(FS, n, ProbeName, ProbeChild(FS))
       /\ (AddFailed("Failed to add file entry")
              \/ AddFailed("Failed to add new directory entry")) =>
             /\ DirFull(FS, DeepestDir(FS, split_path(last'.path)))
             /\ InodeAt(FS', DeepestDir(FS, split_path(last'.path)))
                    = InodeAt(FS, DeepestDir(FS, split_path(last'.path)))
             /\ \A b \in DirectOf(InodeAt(FS, DeepestDir(FS, split_path(last'.path)))) :
                    BlockAt(FS', b) = BlockAt(FS, b)
      ]_vars

\* an add has just failed to link its file into the root directory, which
\* has MAX_DIRECT_BLOCKS blocks and no free slot
C28_Witness ==
    /\ last.op = "add" /\ last.status = "Failed to add file entry"
    /\ DirFull(FS, ROOT_DIR_INODE)
    /\ Cardinality(LiveSlots(FS, InodeAt(FS, ROOT_DIR_INODE)))
           = MAX_DIRECT_BLOCKS * DIR_ENTRIES_PER_BLOCK
    /\ ~Resolves(FS, last.path)

\* the smaller of two numbers
Least(a, b) == IF a <= b THEN a ELSE b

\* the bytes of the source that the direct and single-indirect blocks hold
DirectAndIndirectBytes(src) ==
    Least(Len(src), BLOCK_SIZE * (MAX_DIRECT_BLOCKS + indirect_blocks_per_block))

\* C29: after an add, logical block L < D of the file is direct_blocks[L] and
\* logical block L with D <= L < D + P is slot L - D of the single-indirect
\* block; the blocks are in source order, the order in which extract reads
\* them, so the output of extract begins with the bytes of these blocks.
C29_DirectAndIndirectLayout ==
    (AddedOk /\ Resolves(FS, last.path)) =>
        /\ \A L \in 0..(NumChunks(last.src) - 1) :
               /\ L < MAX_DIRECT_BLOCKS =>
                      /\ L < AddedInode.num_direct
                      /\ AsBytes(BlockAt(FS, AddedInode.direct_blocks[L + 1]))
                             = Pad(Chunk(last.src, L))
               /\ (L >= MAX_DIRECT_BLOCKS
                      /\ L < MAX_DIRECT_BLOCKS + indirect_blocks_per_block) =>
                      /\ AddedInode.indirect_block # -1
                      /\ WordsOf(FS, AddedInode.indirect_block)[L - MAX_DIRECT_BLOCKS + 1] # 0
                      /\ AsBytes(BlockAt(FS,
                             WordsOf(FS, AddedInode.indirect_block)[L - MAX_DIRECT_BLOCKS + 1]))
                             = Pad(Chunk(last.src, L))
        /\ exfs2_extract(FS, last.path).status = "ok"
        /\ Len(exfs2_extract(FS, last.path).out) >= DirectAndIndirectBytes(last.src)
        /\ SubSeq(exfs2_extract(FS, last.path).out, 1, DirectAndIndirectBytes(last.src))
               = SubSeq(last.src, 1, DirectAndIndirectBytes(last.src))

\* a file that fills its direct slots and its single-indirect block has
\* been added
C29_Witness ==
    /\ AddedOk /\ Resolves(FS, last.path)
    /\ NumChunks(last.src) >= MAX_DIRECT_BLOCKS + indirect_blocks_per_block
    /\ AddedInode.num_direct = MAX_DIRECT_BLOCKS
    /\ count_nonzero(WordsOf(FS, AddedInode.indirect_block)) = indirect_blocks_per_block
    /\ AsBytes(BlockAt(FS, WordsOf(FS, AddedInode.indirect_block)[indirect_blocks_per_block]))
           = Pad(Chunk(last.src, MAX_DIRECT_BLOCKS + indirect_blocks_per_block - 1))

\* C30: data block 0 is the first block of the root directory: in every state
\* in which the root directory has a direct block, root.direct_blocks[0] is 0,
\* and no file refers to block 0.
C30_BlockZeroIsRoot ==
    /\ InodeAt(FS, ROOT_DIR_INODE).num_direct >= 1 =>
           InodeAt(FS, ROOT_DIR_INODE).direct_blocks[1] = 0
    /\ \A n \in LiveFiles(FS) : 0 \notin RefBlocks(FS, n)

\* the inode has been written as a file or a directory
RecordWritten(fs, n) == InodeAt(fs, n).type \in {INODE_FILE, INODE_DIR}

\* every live directory entry names an inode whose bit is set and whose
\* record has been written
EntriesNameWrittenInodes(fs) ==
    \A d \in LiveDirs(fs) :
        \A s \in LiveSlots(fs, InodeAt(fs, d)) :
            /\ InodeBit(fs, EntryAt(fs, InodeAt(fs, d), s).inode_num)
            /\ RecordWritten(fs, EntryAt(fs, InodeAt(fs, d), s).inode_num)

\* C31: the writes of an add are ordered bit, record, link.  A write that
\* links an inode finds its bit set and its record written, and the blocks
\* the record names allocated and written, and changes none of them; an
\* inode record is written only after its bit is set; a block is written
\* only with its bit set; at every point of an add every live directory
\* entry names an inode whose bit is set and whose record has been written;
\* after the last write the segment files are those the whole call leaves.
C31_WriteOrder ==
    [][/\ EntriesNameWrittenInodes(FS')
       /\ last'.op = "adding" =>
             /\ \A n \in LiveInodes(FS') \ LiveInodes(FS) :
                    /\ InodeBit(FS, n)
                    /\ RecordWritten(FS, n)
                    /\ InodeAt(FS, n) = InodeAt(FS', n)
                    /\ \A b \in RefBlocks(FS', n) :
                           BlockBit(FS, b) /\ BlockAt(FS, b) = BlockAt(FS', b)
             /\ \A n \in InodeNums(FS) :
                    InodeAt(FS, n) # InodeAt(FS', n) => InodeBit(FS, n)
             /\ \A b \in BlockIds(FS) :
                    BlockAt(FS, b) # BlockAt(FS', b) => BlockBit(FS', b)
       /\ (last.op = "adding" /\ last'.op = "add") =>
             FS = exfs2_add(last.start, last.path, last.file, 0).fs
      ]_vars

\* in the middle of an add of /a/b: directory a is linked in the root, the
\* inode of the file has its bit set and its record written with its blocks,
\* and no entry names it yet
C31_Witness ==
    /\ last.op = "adding"
    /\ Len(split_path(last.path)) = 2
    /\ Reached(FS, split_path(last.path), 1) # {}
    /\ ~Resolves(FS, last.path)
    /\ last.k = Len(WritesOf(last)) - 1
    /\ \E n \in InodeNums(FS) \ LiveInodes(FS) :
           /\ InodeBit(FS, n)
           /\ InodeAt(FS, n).type = INODE_FILE
           /\ InodeAt(FS, n).size = Len(last.src)
           /\ InodeAt(FS, n).indirect_block # -1

\* C32: a command never lowers the num_direct or the size of a directory that
\* is live before and after it, and leaves its direct block ids in place with
\* their bits set, even when a block is left with no live entry; the bit of a
\* directory's block is cleared only by a remove after which the directory
\* is no longer live, and a remove of a directory clears the bits of its
\* blocks.
C32_DirBlocksKept ==
    [][LET after == LiveDirs(FS')
       IN /\ \A d \in LiveDirs(FS) :
                 IF d \in after
                 THEN /\ InodeAt(FS', d).num_direct >= InodeAt(FS, d).num_direct
                      /\ InodeAt(FS', d).size >= InodeAt(FS, d).size
                      /\ \A i \in 1..InodeAt(FS, d).num_direct :
                             /\ InodeAt(FS', d).direct_blocks[i]
                                    = InodeAt(FS, d).direct_blocks[i]
                             /\ BlockBit(FS, InodeAt(FS, d).direct_blocks[i])
                             /\ BlockBit(FS', InodeAt(FS, d).direct_blocks[i])
                 ELSE (\E b \in DirectOf(InodeAt(FS, d)) :
                           BlockBit(FS, b) /\ ~BlockBit(FS', b))
                          => last'.op = "remove"
          /\ (Removing(INODE_DIR) /\ last'.status = "Removed successfully") =>
                 \A b \in DirectOf(InodeAt(FS, Target(FS, last'.path))) :
                     ~BlockBit(FS', b)
      ]_vars

\* after a successful remove, a directory other than the root is live with a
\* block that has no live entry left
C32_Witness ==
    /\ last.op = "remove"
    /\ last.status = "Removed successfully"
    /\ \E d \in LiveDirs(FS) \ {ROOT_DIR_INODE} :
           /\ InodeAt(FS, d).num_direct >= 1
           /\ InodeAt(FS, d).size >= BLOCK_SIZE
           /\ LiveSlots(FS, InodeAt(FS, d)) = {}
           /\ \A b \in DirectOf(InodeAt(FS, d)) : BlockBit(FS, b)

\* the number of block pointers the copy loop stores within the bounds of the
\* file's blocks: the direct slots, the slots of the single-indirect block and
\* one block under each slot of the double-indirect block
StoredPointers(src) ==
    IF NumChunks(src) <= MAX_DIRECT_BLOCKS + 2 * indirect_blocks_per_block
    THEN NumChunks(src)
    ELSE MAX_DIRECT_BLOCKS + 2 * indirect_blocks_per_block

\* no used slot comes after a slot that holds 0
NoHole(words) ==
    \A i \in DOMAIN words : \A j \in DOMAIN words :
        (i < j /\ words[i] = 0) => words[j] = 0

\* C33: block id 0 is never stored in a slot of a single-indirect, level-1 or
\* double-indirect block of a live file.  After a successful add every
\* pointer the copy loop stored is a nonzero word of the file's blocks (a
\* stored 0 would count as an empty slot); in every live file no used slot
\* follows an empty one, so a scan that stops at the first 0 passes every
\* used slot; an extract writes min(size, BLOCK_SIZE * pointers on disk)
\* bytes; block 0, when a live file holds it, is one of its direct blocks.
C33_ZeroNeverStored ==
    /\ (AddedOk /\ Resolves(FS, last.path)) =>
           /\ DataRefs(FS, AddedInode) >= StoredPointers(last.src)
           /\ DataRefs(FS, AddedInode) <= NumChunks(last.src)
    /\ \A f \in LiveFiles(FS) :
           /\ \A b \in IndirectBlocks(FS, InodeAt(FS, f)) : NoHole(WordsOf(FS, b))
           /\ 0 \in RefBlocks(FS, f) => 0 \in DirectOf(InodeAt(FS, f))
    /\ (last.op = "extract" /\ last.status = "ok") =>
           Len(last.out) = Min({InodeAt(FS, Target(FS, last.path)).size,
                                BLOCK_SIZE * DataRefs(FS, InodeAt(FS, Target(FS, last.path)))})

\* a file with indirect slots in use was added when block 0 had been freed by
\* an earlier remove and other blocks were allocated: block 0 went to its
\* first direct slot
C33_Witness ==
    /\ AddedOk
    /\ Resolves(FS, last.path)
    /\ 0 \notin UNION {last.before.dbm[i] : i \in DOMAIN last.before.dbm}
    /\ UNION {last.before.dbm[i] : i \in DOMAIN last.before.dbm} # {}
    /\ AddedInode.indirect_block # -1
    /\ AddedInode.direct_blocks[1] = 0
    /\ NonZero(WordsOf(FS, AddedInode.indirect_block)) # {}

\* the blocks of a file that hold pointers: the single-indirect block, the
\* double-indirect block and the level-1 blocks listed in it, and the blocks
\* of the triple-indirect tree above its leaves
PointerBlocks(fs, inode) ==
    ({inode.indirect_block, inode.double_indirect_block} \ {-1})
    \cup (IF inode.double_indirect_block = -1 THEN {}
          ELSE NonZero(WordsOf(fs, inode.double_indirect_block)))
    \cup (TreeBlocks(fs, inode.triple_indirect_block, 3)
              \ TreeLeaves(fs, inode.triple_indirect_block, 3))

\* every reference to a block in the live graph, with the place that holds it:
\* a direct slot or a pointer field of a live inode, or a used slot of a
\* pointer block of a live file
BlockRefs(fs) ==
    UNION {
        {[at |-> <<"direct", n, i>>, id |-> InodeAt(fs, n).direct_blocks[i]] :
            i \in 1..InodeAt(fs, n).num_direct}
        \cup (IF InodeAt(fs, n).type # INODE_FILE THEN {}
              ELSE {[at |-> <<"field", n, k>>,
                     id |-> <<InodeAt(fs, n).indirect_block,
                              InodeAt(fs, n).double_indirect_block,
                              InodeAt(fs, n).triple_indirect_block>>[k]] :
                        k \in {k \in 1..3 :
                                 <<InodeAt(fs, n).indirect_block,
                                   InodeAt(fs, n).double_indirect_block,
                                   InodeAt(fs, n).triple_indirect_block>>[k] # -1}}
                   \cup UNION {
                        {[at |-> <<"slot", p, i>>, id |-> WordsOf(fs, p)[i]] :
                            i \in {i \in DOMAIN WordsOf(fs, p) : WordsOf(fs, p)[i] # 0}}
                        : p \in PointerBlocks(fs, InodeAt(fs, n))})
        : n \in LiveInodes(fs) \cap InodeNums(fs)}

\* every live directory entry, with the directory and the slot that hold it
EntryRefs(fs) ==
    UNION {{[at |-> <<d, s>>, id |-> EntryAt(fs, InodeAt(fs, d), s).inode_num] :
               s \in LiveSlots(fs, InodeAt(fs, d))} : d \in LiveDirs(fs)}

\* the places of a set of references hold different ids
Distinct(refs) == Cardinality({r.id : r \in refs}) = Cardinality(refs)

\* no block id is held by two places, no inode number is named by two live
\* entries, and none of them names the root
NoAliasing(fs) ==
    /\ Distinct(BlockRefs(fs))
    /\ Distinct(EntryRefs(fs) \cup {[at |-> <<>>, id |-> ROOT_DIR_INODE]})

\* C34: in every state no block id is referenced from two places of the live
\* graph (direct slots and pointer fields of live inodes, used slots of the
\* pointer blocks of live files) and no inode number is named by two live
\* directory entries; a remove clears no bit of a block or of an inode that
\* the live graph still references after it.
C34_NoAliasing ==
    [][/\ NoAliasing(FS')
       /\ last'.op = "remove" =>
             /\ \A b \in LiveBlocks(FS') : BlockBit(FS, b) => BlockBit(FS', b)
             /\ \A n \in LiveInodes(FS') : InodeBit(FS, n) => InodeBit(FS', n)
      ]_vars

\* after a successful remove that cleared block and inode bits, a file with a
\* single-indirect block and at least one other object are still live
C34_Witness ==
    /\ last.op = "remove"
    /\ last.status = "Removed successfully"
    /\ last.before # Bitmaps(FS)
    /\ \E f \in LiveFiles(FS) :
           /\ InodeAt(FS, f).indirect_block # -1
           /\ NonZero(WordsOf(FS, InodeAt(FS, f).indirect_block)) # {}
    /\ Cardinality(BlockRefs(FS)) >= MAX_DIRECT_BLOCKS + 3
    /\ Cardinality(EntryRefs(FS)) >= 1

\* a component of the path before the last one leads to a file
FileOnPath(fs, parts) ==
    \E k \in 1..(Len(parts) - 1) :
        \E n \in Reached(fs, parts, k) : InodeAt(fs, n).type = INODE_FILE

\* C35: an add whose path has, before its last component, a component that
\* resolves to a file is rejected with 'is not a directory' and changes no
\* bitmap bit, inode record or block: no directory has been created and
\* nothing has been allocated; add gives that diagnostic in no other case.
C35_NotADirectory ==
    [][last'.op = "add" =>
          /\ FileOnPath(FS, split_path(last'.path)) =>
                 (last'.status = "is not a directory" /\ FsUnchanged)
          /\ last'.status = "is not a directory" =>
                 FileOnPath(FS, split_path(last'.path))
      ]_vars

\* an add of /a/b/c or deeper was rejected: a is a directory and b, in it, is
\* a file
C35_Witness ==
    /\ last.op = "add"
    /\ last.status = "is not a directory"
    /\ Len(split_path(last.path)) >= 3
    /\ \E d \in Reached(FS, split_path(last.path), 1) :
           InodeAt(FS, d).type = INODE_DIR
    /\ \E f \in Reached(FS, split_path(last.path), 2) :
           InodeAt(FS, f).type = INODE_FILE
    /\ last.before = Bitmaps(FS)

====
